---- MODULE Spec2Model ----
(***************************************************************************)
(* Response orchestration and link integrity of the AKTU/AKGEC chatbot     *)
(* (src/app/ai_engine.py, src/app/main.py).                                 *)
(*                                                                         *)
(* Spec          _chat and the model cooldown registry, called by the       *)
(*               queries the service handles, with a clock.                 *)
(* SpecRegistry  _mark_model_unavailable called directly by concurrent      *)
(*               threads with arbitrary arguments, with a clock.            *)
(* SpecReply     _classify_and_reply_internal on the results of _chat: link *)
(*               verification, sanitization, the retry for another link,    *)
(*               the source list.                                           *)
(*                                                                         *)
(* Times are integers counting tenths of a second, so that a retry hint    *)
(* such as 12.5 s is the integer 125.                                       *)
(***************************************************************************)
EXTENDS Integers, Sequences, FiniteSets, TLC

VARIABLES
    cfg,                            \* app.config: the process configuration
    now,                            \* time.time(), in tenths of a second
    ticks,                          \* clock steps taken so far
    MODEL_SKIP_UNTIL,               \* _MODEL_SKIP_UNTIL; 0 stands for "no entry"
    MODEL_PERMANENTLY_UNAVAILABLE,  \* _MODEL_PERMANENTLY_UNAVAILABLE
    pc,                             \* per query: position inside _chat
    model_idx,                      \* per query: index into model_attempts
    tool_idx,                       \* per query: index into tool_attempts
    attempt,                        \* per query: attempt of _post_gemini_with_retries
    clock_read,                     \* per query: the value time.time() returned
    http_response,                  \* per query: the HTTP error response in hand
    attempted_any_model,            \* per query: local of _chat
    outcome,                        \* per query: what _chat returned or raised
    last_try,                       \* per query: the last (model, tool) attempt and how it ended
    perm_at_start,                  \* per query: the models with a completed 404 mark when this call started
    skipped,                        \* per query: the models this call has skipped
    failover,                       \* per query: the last HTTP error that made this call leave a model
    posting,                        \* per query: the _post_gemini_with_retries calls of this _chat call, and the sleeps of the current one
    ever_404,                       \* models for which a 404 mark has completed
    call,                           \* per thread: a direct registry call in progress
    reply_pc,                       \* position inside _classify_and_reply_internal
    web,                            \* what _verify_working_url returns for each URL
    answer,                         \* local of _classify_and_reply_internal
    sources,                        \* local of _classify_and_reply_internal
    removed_unverified_links,       \* local of _classify_and_reply_internal
    failed_urls,                    \* local of _classify_and_reply_internal
    verified_urls,                  \* the non-empty results of _verify_working_url in this query
    reply,                          \* what _classify_and_reply_internal returned or raised
    chat_calls,                     \* the _chat calls classify_and_reply has made so far
    cache,                          \* the cache of cache.py: the value under each key ("": none)
    session,                        \* each request thread of main.query: position and locals
    reset_pc,                       \* position inside main.reset_session
    parse_pc,                       \* position inside _parse_mode_answer
    raw_text,                       \* argument of _parse_mode_answer
    parse_cleaned,                  \* local "cleaned" of _parse_mode_answer
    parsed,                         \* what _parse_mode_answer returned or raised
    query_pc,                       \* position inside main.query
    upstream,                       \* what the upstream gives _chat in this query
    raised,                         \* the exception classify_and_reply raised
    response,                       \* what /query gives its client
    batch_pc,                       \* position inside _verify_urls_parallel
    batch_urls,                     \* argument of _verify_urls_parallel
    pending,                        \* the submitted verifications not yet collected
    in_flight,                      \* the submitted verifications a pool thread is running
    completion,                     \* the keys of "verified", in the order of their insertion
    batch_verified,                 \* local "verified" of _verify_urls_parallel
    batch_result,                   \* what _verify_urls_parallel returned or raised
    verify_pc,                      \* position inside _verify_working_url
    verify_url,                     \* argument of _verify_working_url
    candidate,                      \* local of _verify_working_url
    final_url,                      \* local of _verify_working_url
    verify_result,                  \* what _verify_working_url returned or raised
    probes,                         \* the requests of the loop of _verify_working_url, in order
    unit_pc,                        \* a helper called on its own: "called", then "done"
    unit_in,                        \* its arguments
    unit_out,                       \* what it returned
    chat_locks,                     \* _chat_locks of telegram_bot.py: the lock of each chat
    run_query                       \* per update: position and locals of _run_query

chatVars == <<cfg, now, ticks, MODEL_SKIP_UNTIL, MODEL_PERMANENTLY_UNAVAILABLE, pc,
              model_idx, tool_idx, attempt, clock_read, http_response,
              attempted_any_model, outcome, last_try, perm_at_start, skipped, failover,
              ever_404, posting>>

\* what _chat and the clock leave alone
replyVars == <<reply_pc, web, answer, sources, removed_unverified_links, failed_urls,
               verified_urls, reply, chat_calls>>

parseVars == <<parse_pc, raw_text, parse_cleaned, parsed>>

\* the variables of the helpers that are exercised on their own
queryVars == <<query_pc, upstream, raised, response>>

batchVars == <<batch_pc, batch_urls, pending, in_flight, completion, batch_verified,
              batch_result>>
verifyVars == <<verify_pc, verify_url, candidate, final_url, verify_result, probes>>

\* the helpers other than the parser and /query
helperVars == <<unit_pc, unit_in, unit_out>>
\* the variables of the Telegram bot
botVars == <<chat_locks, run_query>>

restVars == <<batchVars, verifyVars, helperVars, botVars>>

unitVars == <<parseVars, queryVars, restVars>>

\* the variables of main.py
sessionVars == <<cache, session, reset_pc>>

notChat == <<call, replyVars, unitVars, sessionVars>>

vars == <<chatVars, call, replyVars, unitVars, sessionVars>>

(***************************************************************************)
(* Bounds of the model.                                                    *)
(***************************************************************************)
MaxTicks == 2
MaxBodyLen == 1

Queries == {"q1", "q2"}
Threads == {"t1", "t2"}
ModelNames == {"m1", "m2", "m3"}
TickSteps == {300}

Max(a, b) == IF a >= b THEN a ELSE b

\* seconds to tenths of a second
Tenths(seconds) == seconds * 10

(***************************************************************************)
(* Configuration (src/app/config.py).  A scenario is one process           *)
(* configuration together with the set of queries the service handles      *)
(* concurrently.                                                            *)
(***************************************************************************)
Scenarios ==
    { [GEMINI_API_KEY |-> TRUE, GEMINI_MODEL |-> "m1",
       GEMINI_FALLBACK_MODELS |-> <<"m2", "m1">>,
       GEMINI_ENABLE_GOOGLE_SEARCH |-> TRUE, GEMINI_REQUEST_RETRIES |-> 1,
       queries |-> {"q1"}],
      [GEMINI_API_KEY |-> TRUE, GEMINI_MODEL |-> "m1",
       GEMINI_FALLBACK_MODELS |-> <<"", "m2", "m3">>,
       GEMINI_ENABLE_GOOGLE_SEARCH |-> FALSE, GEMINI_REQUEST_RETRIES |-> 0,
       queries |-> {"q1"}],
      [GEMINI_API_KEY |-> TRUE, GEMINI_MODEL |-> "m1",
       GEMINI_FALLBACK_MODELS |-> << >>,
       GEMINI_ENABLE_GOOGLE_SEARCH |-> FALSE, GEMINI_REQUEST_RETRIES |-> -1,
       queries |-> {"q1", "q2"}],
      [GEMINI_API_KEY |-> TRUE, GEMINI_MODEL |-> "",
       GEMINI_FALLBACK_MODELS |-> << >>,
       GEMINI_ENABLE_GOOGLE_SEARCH |-> TRUE, GEMINI_REQUEST_RETRIES |-> 0,
       queries |-> {"q1"}],
      [GEMINI_API_KEY |-> FALSE, GEMINI_MODEL |-> "",
       GEMINI_FALLBACK_MODELS |-> << >>,
       GEMINI_ENABLE_GOOGLE_SEARCH |-> TRUE, GEMINI_REQUEST_RETRIES |-> 0,
       queries |-> {"q1"}] }

(***************************************************************************)
(* Program constants (src/app/ai_engine.py); the cooldowns are in seconds.  *)
(***************************************************************************)
LINK_RETRY_ATTEMPTS == 1
MAX_VERIFIED_GROUNDING_SOURCES == 8
MAX_RESPONSE_SOURCES == 5
MODEL_MIN_COOLDOWN_SECONDS == 30
MODEL_LONG_COOLDOWN_SECONDS == 3600

(***************************************************************************)
(* An error body is a sequence of the phrases that matter to the registry: *)
(*   [k |-> "retry", n |-> N]  'please retry in <N/10>s', in any letter    *)
(*                             case (MODEL_RETRY_AFTER_PATTERN matches it) *)
(*   [k |-> "limit0", n |-> 0] 'limit: 0', in any letter case              *)
(***************************************************************************)
BodyPhrases ==
    { [k |-> "retry", n |-> 125], [k |-> "retry", n |-> 450], [k |-> "limit0", n |-> 0] }

RECURSIVE SeqsUpTo(_, _)
SeqsUpTo(S, n) ==
    IF n = 0 THEN { << >> }
    ELSE LET shorter == SeqsUpTo(S, n - 1)
         IN  shorter \cup { Append(s, x) : s \in { t \in shorter : Len(t) = n - 1 }, x \in S }

Bodies == SeqsUpTo(BodyPhrases, MaxBodyLen)

\* the bodies of the direct registry calls: also a hint above the long cooldown, a
\* hint next to the zero-quota marker, and two hints in one body
RegistryBodies ==
    SeqsUpTo(BodyPhrases \cup { [k |-> "retry", n |-> 40000] }, MaxBodyLen)
        \cup { << [k |-> "limit0", n |-> 0], [k |-> "retry", n |-> 450] >>,
               << [k |-> "retry", n |-> 40000], [k |-> "limit0", n |-> 0] >>,
               << [k |-> "retry", n |-> 125], [k |-> "retry", n |-> 450] >> }

\* _extract_retry_after_seconds: the number of the first match of the pattern, else 0.0
RECURSIVE extract_retry_after_seconds(_)
extract_retry_after_seconds(error_text) ==
    IF error_text = << >> THEN 0
    ELSE IF Head(error_text).k = "retry" THEN Head(error_text).n
    ELSE extract_retry_after_seconds(Tail(error_text))

\* "limit: 0" in (error_text or "").lower()
has_zero_quota(error_text) ==
    \E i \in 1..Len(error_text) : error_text[i].k = "limit0"

\* variant: hint and floor added up instead of the larger one taken
cooldown_until_sum(clock, error_text) ==
    LET retry_after == extract_retry_after_seconds(error_text)
        floor == IF has_zero_quota(error_text)
                 THEN Tenths(MODEL_LONG_COOLDOWN_SECONDS)
                 ELSE Tenths(MODEL_MIN_COOLDOWN_SECONDS)
    IN  clock + retry_after + floor

\* lines 447-452 of _mark_model_unavailable: the cooldown end this call computes
cooldown_until(clock, error_text) ==
    LET retry_after == extract_retry_after_seconds(error_text)
        floor == IF has_zero_quota(error_text)
                 THEN Tenths(MODEL_LONG_COOLDOWN_SECONDS)
                 ELSE Tenths(MODEL_MIN_COOLDOWN_SECONDS)
        cooldown == Max(retry_after, floor)
    IN  clock + cooldown

\* variant: a 403 puts the model into the permanent set as a 404 does
mark_permanent_on_refusal(perm, model_name, status) ==
    IF status \in {403, 404} THEN perm \cup {model_name} ELSE perm

\* the locked block of _mark_model_unavailable: the new permanent set
mark_permanent(perm, model_name, status) ==
    IF status = 404 THEN perm \cup {model_name} ELSE perm

\* variant: the computed end is stored without comparing it to the existing one
mark_skip_until_overwrite(skip_until, model_name, status, clock, error_text) ==
    IF status \notin {403, 429} THEN skip_until
    ELSE [skip_until EXCEPT ![model_name] = cooldown_until(clock, error_text)]

\* the locked block of _mark_model_unavailable: the new cooldown map
mark_skip_until(skip_until, model_name, status, clock, error_text) ==
    IF status = 404 THEN skip_until
    ELSE IF status \notin {403, 429} THEN skip_until
    ELSE LET until == cooldown_until(clock, error_text)
             existing == skip_until[model_name]
         IN  IF until > existing
             THEN [skip_until EXCEPT ![model_name] = until]
             ELSE skip_until

\* variant: the permanent set is not consulted
model_skip_reason_cooldown_only(perm, skip_until, model_name, clock) ==
    IF skip_until[model_name] > clock THEN "cooldown" ELSE ""

\* variant: a cooldown still counts at the clock value of its end
model_skip_reason_inclusive(perm, skip_until, model_name, clock) ==
    IF model_name \in perm THEN "permanent_unavailable"
    ELSE IF skip_until[model_name] >= clock /\ skip_until[model_name] > 0 THEN "cooldown"
    ELSE ""

\* _model_skip_reason, given the clock value it read
model_skip_reason(perm, skip_until, model_name, clock) ==
    IF model_name \in perm THEN "permanent_unavailable"
    ELSE IF skip_until[model_name] > clock THEN "cooldown"
    ELSE ""

\* _model_attempts: [GEMINI_MODEL, *GEMINI_FALLBACK_MODELS], blanks and repeats dropped
RECURSIVE dedupe(_, _)
dedupe(models, deduped) ==
    IF models = << >> THEN deduped
    ELSE LET name == Head(models)
         IN  IF name = "" \/ (\E i \in 1..Len(deduped) : deduped[i] = name)
             THEN dedupe(Tail(models), deduped)
             ELSE dedupe(Tail(models), Append(deduped, name))

model_attempts == dedupe(<<cfg.GEMINI_MODEL>> \o cfg.GEMINI_FALLBACK_MODELS, << >>)

\* _tool_attempts: the names of the tool configurations, in order
tool_attempts ==
    IF ~cfg.GEMINI_ENABLE_GOOGLE_SEARCH THEN <<"none">>
    ELSE <<"google_search", "googleSearch">>

\* config.py, line 44: 1.25 s, in hundredths of a second
GEMINI_RETRY_BACKOFF_SECONDS == 125

\* _chat, line 611: one more _post_gemini_with_retries call, which has not slept yet
next_post_call(made) == [calls |-> made.calls + 1, slept |-> << >>]

\* variant: one attempt more than the retries allow
total_attempts_extra == Max(0, cfg.GEMINI_REQUEST_RETRIES) + 2

\* _post_gemini_with_retries: total_attempts
total_attempts == Max(0, cfg.GEMINI_REQUEST_RETRIES) + 1

(***************************************************************************)
(* Exceptions and results of _chat.  A message is the sequence of its      *)
(* words, so that main.query's substring test can be carried out.          *)
(***************************************************************************)
MSG_API_KEY_MISSING == <<"GEMINI_API_KEY", "is", "missing", ".">>
MSG_ALL_UNAVAILABLE ==
    <<"All", "configured", "Gemini", "models", "are", "currently", "unavailable", ".">>
MSG_CHAT_FAILED == <<"Gemini", "chat", "failed", ".">>
MSG_NO_CANDIDATES == <<"Gemini", "returned", "no", "candidates", ".">>
MSG_EMPTY_CONTENT == <<"Gemini", "returned", "empty", "content", ".">>
MSG_BLANK_TEXT == <<"Gemini", "returned", "blank", "text", ".">>

NoOutcome == [kind |-> "none", status |-> 0, message |-> << >>, model |-> "", tool |-> ""]
ChatResult(model_name, tool_name) ==
    [kind |-> "ChatResult", status |-> 200, message |-> << >>,
     model |-> model_name, tool |-> tool_name]
RuntimeError(message) ==
    [kind |-> "RuntimeError", status |-> 0, message |-> message, model |-> "", tool |-> ""]
HTTPError(status) ==
    [kind |-> "HTTPError", status |-> status, message |-> << >>, model |-> "", tool |-> ""]
RequestException ==
    [kind |-> "RequestException", status |-> 0, message |-> << >>, model |-> "", tool |-> ""]

NoResponse == [status |-> 0, body |-> << >>]
NoCall == [op |-> "none", model |-> "", status |-> 0, body |-> << >>, clock |-> 0]
NoTry == [model |-> "", tool |-> "", result |-> "none", status |-> 0]

\* what the upstream may answer to a POST; the error body is drawn for the statuses
\* whose body the registry reads
ErrorStatuses == {400, 403, 404, 429, 500}
ErrorBodies(status) == IF status \in {403, 429} THEN Bodies ELSE { << >> }
ResponseData == {"answer", "no_candidates", "empty_content", "blank_text"}

\* _extract_answer_text: the RuntimeError it raises for a 200 response without text
extract_answer_text_error(data) ==
    CASE data = "no_candidates" -> MSG_NO_CANDIDATES
      [] data = "empty_content" -> MSG_EMPTY_CONTENT
      [] OTHER -> MSG_BLANK_TEXT

\* variant: 429, 403 and 404 are raised whatever the position of the model
http_error_next_no_failover(status, has_tool_cfg, is_last_tool_attempt, is_last_model_attempt) ==
    IF has_tool_cfg /\ status = 400 /\ ~is_last_tool_attempt THEN "next_tool"
    ELSE IF status = 400 /\ ~is_last_model_attempt THEN "next_model"
    ELSE "raise"

\* variant: every status leads to the next model while one remains
http_error_next_any_status(status, has_tool_cfg, is_last_tool_attempt, is_last_model_attempt) ==
    IF has_tool_cfg /\ status = 400 /\ ~is_last_tool_attempt THEN "next_tool"
    ELSE IF ~is_last_model_attempt THEN "next_model"
    ELSE "raise"

\* variant: a 400 leaves the model at once, whatever tool configurations remain
http_error_next_leaves_model(status, has_tool_cfg, is_last_tool_attempt, is_last_model_attempt) ==
    IF status \in {400, 429, 403, 404} /\ ~is_last_model_attempt THEN "next_model"
    ELSE IF has_tool_cfg /\ status = 400 /\ ~is_last_tool_attempt THEN "next_tool"
    ELSE "raise"

\* _chat, lines 635-666: what follows an HTTPError, once the registry is updated
http_error_next(status, has_tool_cfg, is_last_tool_attempt, is_last_model_attempt) ==
    IF has_tool_cfg /\ status = 400 /\ ~is_last_tool_attempt THEN "next_tool"
    ELSE IF status \in {429, 403, 404} /\ ~is_last_model_attempt THEN "next_model"
    ELSE IF status = 400 /\ ~is_last_model_attempt THEN "next_model"
    ELSE "raise"

\* variant: the transport error is raised whatever the tool configuration
request_exception_next_raise(is_last_tool_attempt) == "raise"

\* _chat, lines 667-682: what follows a transport error that outlived its retries
request_exception_next(is_last_tool_attempt) ==
    IF ~is_last_tool_attempt THEN "next_tool" ELSE "raise"

\* variant: one message for both ways of running out of models
loop_exhausted_error_generic(attempted_any) == RuntimeError(MSG_CHAT_FAILED)

\* _chat, lines 687-690: the error raised when the model loop runs out
loop_exhausted_error(attempted_any) ==
    IF ~attempted_any THEN RuntimeError(MSG_ALL_UNAVAILABLE)
    ELSE RuntimeError(MSG_CHAT_FAILED)

cur_model(p) == model_attempts[model_idx[p]]
cur_tool(p) == tool_attempts[tool_idx[p]]
is_last_tool(p) == tool_idx[p] = Len(tool_attempts)
is_last_model(p) == model_idx[p] = Len(model_attempts)

(***************************************************************************)
(* Texts, links and grounding sources.                                     *)
(*                                                                         *)
(* A text is the sequence of its tokens.  A token is a word, or a match of *)
(* URL_PATTERN: the URL that _normalize_extracted_url leaves of the match  *)
(* (field u) and the trailing punctuation it strips (field trail).         *)
(***************************************************************************)
Urls == {"https://u1", "https://u2", "https://v1"}

Word(w) == [k |-> "word", u |-> w, trail |-> ""]
Url(u, trail) == [k |-> "url", u |-> u, trail |-> trail]

\* _normalize_extracted_url of a match
normalize_extracted_url(token) == token.u

\* _extract_urls: the normalized URLs of a text, in order, repeats dropped
RECURSIVE extract_urls_from(_, _)
extract_urls_from(text, urls) ==
    IF text = << >> THEN urls
    ELSE LET token == Head(text)
         IN  IF token.k # "url" \/ (\E i \in 1..Len(urls) : urls[i] = token.u)
             THEN extract_urls_from(Tail(text), urls)
             ELSE extract_urls_from(Tail(text), Append(urls, normalize_extracted_url(token)))

extract_urls(text) == extract_urls_from(text, << >>)

Range(seq) == { seq[i] : i \in 1..Len(seq) }

\* the environment of a query: what _verify_working_url returns for a URL ("" when
\* the link does not resolve or does not answer with a status below 400)
Webs ==
    { [u \in Urls |-> CASE u = "https://u1" -> "https://v1"
                        [] u = "https://u2" -> ""
                        [] OTHER -> "https://v1"],
      [u \in Urls |-> CASE u = "https://u1" -> "https://u1"
                        [] u = "https://u2" -> "https://v1"
                        [] OTHER -> ""],
      [u \in Urls |-> ""] }

NoWeb == [u \in Urls |-> ""]

verify_working_url(w, url) == w[url]

\* _sanitize_answer_links, lines 238-258: the parts written for the matches
RECURSIVE sanitize_parts(_, _)
sanitize_parts(text, w) ==
    IF text = << >> THEN << >>
    ELSE LET token == Head(text)
             rest == sanitize_parts(Tail(text), w)
         IN  IF token.k # "url" THEN <<token>> \o rest
             ELSE LET verified == verify_working_url(w, normalize_extracted_url(token))
                  IN  IF verified # "" THEN <<Url(verified, token.trail)>> \o rest
                      ELSE IF token.trail # "" THEN <<Word(token.trail)>> \o rest
                      ELSE rest

\* _sanitize_answer_links: (sanitized, removed_unverified, failed_urls)
sanitize_answer_links(text, w) ==
    LET urls == extract_urls(text)
        failed == SelectSeq(urls, LAMBDA u : verify_working_url(w, u) = "")
    IN  IF text = << >> \/ urls = << >>
        THEN [sanitized |-> text, removed_unverified |-> FALSE, failed_urls |-> << >>]
        ELSE [sanitized |-> sanitize_parts(text, w),
              removed_unverified |-> failed # << >>,
              failed_urls |-> failed]

\* the non-empty results _sanitize_answer_links got from _verify_urls_parallel
sanitize_verified(text, w) ==
    { verify_working_url(w, u) : u \in Range(extract_urls(text)) } \ {""}

(***************************************************************************)
(* A grounding chunk of the upstream response is [uri, title]; the title   *)
(* is a text (empty when the chunk has none).                              *)
(***************************************************************************)
\* title = str(web.get("title", "")).strip() or url
source_title(chunk) == IF chunk.title # << >> THEN chunk.title ELSE <<Url(chunk.uri, "")>>

\* variant: the loop goes on after MAX_VERIFIED_GROUNDING_SOURCES sources
RECURSIVE grounding_walk_uncapped(_, _, _)
grounding_walk_uncapped(chunks, w, acc) ==
    IF chunks = << >> THEN acc
    ELSE LET url == Head(chunks).uri
             resolved_url == verify_working_url(w, url)
         IN  IF url = "" \/ url \in acc.seen_input_urls
             THEN grounding_walk_uncapped(Tail(chunks), w, acc)
             ELSE IF resolved_url = "" \/ resolved_url \in acc.seen_urls
             THEN grounding_walk_uncapped(Tail(chunks), w,
                      [acc EXCEPT !.seen_input_urls = @ \cup {url}])
             ELSE grounding_walk_uncapped(Tail(chunks), w,
                      [seen_input_urls |-> acc.seen_input_urls \cup {url},
                       seen_urls |-> acc.seen_urls \cup {resolved_url},
                       sources |-> Append(acc.sources,
                                          [title |-> source_title(Head(chunks)),
                                           url |-> resolved_url])])

\* _extract_grounding_sources: the loop over the chunks
RECURSIVE grounding_walk(_, _, _)
grounding_walk(chunks, w, acc) ==
    IF chunks = << >> \/ Len(acc.sources) >= MAX_VERIFIED_GROUNDING_SOURCES THEN acc
    ELSE LET chunk == Head(chunks)
             url == chunk.uri
             resolved_url == verify_working_url(w, url)
         IN  IF url = "" \/ url \in acc.seen_input_urls
             THEN grounding_walk(Tail(chunks), w, acc)
             ELSE IF resolved_url = "" \/ resolved_url \in acc.seen_urls
             THEN grounding_walk(Tail(chunks), w,
                      [acc EXCEPT !.seen_input_urls = @ \cup {url}])
             ELSE grounding_walk(Tail(chunks), w,
                      [seen_input_urls |-> acc.seen_input_urls \cup {url},
                       seen_urls |-> acc.seen_urls \cup {resolved_url},
                       sources |-> Append(acc.sources,
                                          [title |-> source_title(chunk),
                                           url |-> resolved_url])])

extract_grounding_sources(chunks, w) ==
    grounding_walk(chunks, w,
                   [seen_input_urls |-> {}, seen_urls |-> {}, sources |-> << >>]).sources

\* the non-empty results _extract_grounding_sources got from _verify_working_url
grounding_verified(chunks, w) ==
    grounding_walk(chunks, w,
                   [seen_input_urls |-> {}, seen_urls |-> {}, sources |-> << >>]).seen_urls

\* variant: the failed URLs are not looked at
RECURSIVE pick_any_source_url(_, _)
pick_any_source_url(srcs, failed) ==
    IF srcs = << >> THEN ""
    ELSE IF Head(srcs).url = "" THEN pick_any_source_url(Tail(srcs), failed)
    ELSE Head(srcs).url

\* _pick_alternative_source_url
RECURSIVE pick_alternative_source_url(_, _)
pick_alternative_source_url(srcs, failed) ==
    IF srcs = << >> THEN ""
    ELSE LET source_url == Head(srcs).url
         IN  IF source_url = "" \/ source_url \in Range(failed)
             THEN pick_alternative_source_url(Tail(srcs), failed)
             ELSE source_url

\* _append_official_link
append_official_link(text, url) ==
    LET link_line == <<Word("Official link:"), Url(url, "")>>
    IN  IF text = << >> THEN link_line
        ELSE IF \E i \in 1..Len(text) : text[i].k = "url" /\ text[i].u = url THEN text
        ELSE text \o link_line

\* f"- {source['title']}: {source['url']}": the colon follows the title directly, so
\* that a title ending in a URL makes a match of URL_PATTERN ending in ':'
source_line(source) ==
    LET title == source.title
        last == title[Len(title)]
        titled == IF last.k = "url"
                  THEN SubSeq(title, 1, Len(title) - 1) \o <<Url(last.u, ":")>>
                  ELSE title \o <<Word(":")>>
    IN  <<Word("-")>> \o titled \o <<Url(source.url, "")>>

RECURSIVE source_lines(_)
source_lines(srcs) ==
    IF srcs = << >> THEN << >> ELSE source_line(Head(srcs)) \o source_lines(Tail(srcs))

\* _append_sources
append_sources(text, srcs) ==
    IF srcs = << >> THEN text
    ELSE IF \E i \in 1..Len(text) : text[i].k = "url" THEN text
    ELSE text \o <<Word("Sources:")>>
              \o source_lines(SubSeq(srcs, 1, IF Len(srcs) < MAX_RESPONSE_SOURCES
                                             THEN Len(srcs) ELSE MAX_RESPONSE_SOURCES))

\* variant: nothing is said when no link could be verified
NOTE_LEFT_OUT == << >>

\* line 816: the note
NOTE_NO_LINK == <<Word("I could not verify a working official link right now.")>>

NoReply == [kind |-> "none", answer |-> << >>]

(***************************************************************************)
(* Upstream text.  A string is the sequence of its lexemes: a punctuation  *)
(* or whitespace character, or a run of characters that the parser never   *)
(* splits (a word, a number, a URL).  No word of the alphabet starts with  *)
(* a letter that forms a JSON escape, except the one-letter words "n" and  *)
(* "t".                                                                     *)
(***************************************************************************)
LB == "{"
RB == "}"
LS == "["
RS == "]"
DQ == "\""
SQ == "'"
BS == "\\"
COLON == ":"
COMMA == ","
SP == " "
NL == "\n"
TAB == "\t"
\* a run of three backquotes
FENCE == "FENCE"

IsSpace(x) == x \in {SP, NL, TAB}
Numbers == {"42", "5"}

\* str.lower, lexeme by lexeme
lower_lexeme(x) ==
    CASE x = "SMALLTALK" -> "smalltalk"
      [] x = "JSON" -> "json"
      [] x = "Official_Info" -> "official_info"
      [] OTHER -> x

lower_text(text) == [i \in 1..Len(text) |-> lower_lexeme(text[i])]

\* str.strip
RECURSIVE lstrip(_)
lstrip(text) ==
    IF text # << >> /\ IsSpace(Head(text)) THEN lstrip(Tail(text)) ELSE text

RECURSIVE rstrip(_)
rstrip(text) ==
    IF text # << >> /\ IsSpace(text[Len(text)])
    THEN rstrip(SubSeq(text, 1, Len(text) - 1)) ELSE text

strip(text) == rstrip(lstrip(text))

\* str.strip of backquotes
RECURSIVE strip_fences(_)
strip_fences(text) ==
    IF text # << >> /\ Head(text) = FENCE THEN strip_fences(Tail(text))
    ELSE IF text # << >> /\ text[Len(text)] = FENCE
    THEN strip_fences(SubSeq(text, 1, Len(text) - 1))
    ELSE text

\* str.find(pattern, start): the least index from start on at which pattern occurs;
\* 0 stands for -1
find(text, pattern, start) ==
    LET hits == { i \in start..(Len(text) - Len(pattern) + 1) :
                     \A j \in 1..Len(pattern) : text[i + j - 1] = pattern[j] }
    IN  IF hits = {} THEN 0 ELSE CHOOSE i \in hits : \A k \in hits : i <= k

\* str.rfind(pattern); 0 stands for -1
rfind(text, pattern) ==
    LET hits == { i \in 1..(Len(text) - Len(pattern) + 1) :
                     \A j \in 1..Len(pattern) : text[i + j - 1] = pattern[j] }
    IN  IF hits = {} THEN 0 ELSE CHOOSE i \in hits : \A k \in hits : i >= k

\* pattern in text
occurs_in(pattern, text) == find(text, pattern, 1) # 0

\* str.replace(old, new), old a sequence of two lexemes
RECURSIVE replace(_, _, _)
replace(text, old, new) ==
    IF Len(text) < 2 THEN text
    ELSE IF SubSeq(text, 1, 2) = old
    THEN new \o replace(SubSeq(text, 3, Len(text)), old, new)
    ELSE <<Head(text)>> \o replace(Tail(text), old, new)

(***************************************************************************)
(* json.loads.  A decoded value is [t, s, keys, vals]: t its type, s the   *)
(* string (or the literal of a number), keys and vals the members of an    *)
(* object, vals the elements of an array.                                  *)
(***************************************************************************)
JStr(s) == [t |-> "str", s |-> s, keys |-> << >>, vals |-> << >>]
JNum(x) == [t |-> "num", s |-> <<x>>, keys |-> << >>, vals |-> << >>]
JNull == [t |-> "null", s |-> << >>, keys |-> << >>, vals |-> << >>]
JBool(x) == [t |-> "bool", s |-> <<x>>, keys |-> << >>, vals |-> << >>]
JObj(keys, vals) == [t |-> "obj", s |-> << >>, keys |-> keys, vals |-> vals]
JArr(vals) == [t |-> "arr", s |-> << >>, keys |-> << >>, vals |-> vals]

JSONDecodeError == [ok |-> FALSE, val |-> JNull, next |-> 0]
Decoded(val, next) == [ok |-> TRUE, val |-> val, next |-> next]

\* the escapes of a JSON string that the alphabet can spell
JsonEscapes == {DQ, BS, "/", "n", "t"}
json_escape(x) ==
    CASE x = "n" -> NL
      [] x = "t" -> TAB
      [] OTHER -> x

RECURSIVE skip_ws(_, _)
skip_ws(text, i) ==
    IF i <= Len(text) /\ IsSpace(text[i]) THEN skip_ws(text, i + 1) ELSE i

\* a string, from the lexeme after its opening quote on
RECURSIVE json_string(_, _, _)
json_string(text, i, out) ==
    IF i > Len(text) THEN JSONDecodeError
    ELSE IF text[i] = DQ THEN Decoded(JStr(out), i + 1)
    ELSE IF text[i] = BS
    THEN IF i + 1 <= Len(text) /\ text[i + 1] \in JsonEscapes
         THEN json_string(text, i + 2, Append(out, json_escape(text[i + 1])))
         ELSE JSONDecodeError
    ELSE IF text[i] \in {NL, TAB} THEN JSONDecodeError
    ELSE json_string(text, i + 1, Append(out, text[i]))

RECURSIVE json_value(_, _)
RECURSIVE json_members(_, _, _, _)
RECURSIVE json_elements(_, _, _)

json_value(text, start) ==
    LET i == skip_ws(text, start)
    IN  IF i > Len(text) THEN JSONDecodeError
        ELSE IF text[i] = LB
        THEN LET j == skip_ws(text, i + 1)
             IN  IF j <= Len(text) /\ text[j] = RB THEN Decoded(JObj(<< >>, << >>), j + 1)
                 ELSE json_members(text, j, << >>, << >>)
        ELSE IF text[i] = LS
        THEN LET j == skip_ws(text, i + 1)
             IN  IF j <= Len(text) /\ text[j] = RS THEN Decoded(JArr(<< >>), j + 1)
                 ELSE json_elements(text, j, << >>)
        ELSE IF text[i] = DQ THEN json_string(text, i + 1, << >>)
        ELSE IF text[i] \in Numbers THEN Decoded(JNum(text[i]), i + 1)
        ELSE IF text[i] = "null" THEN Decoded(JNull, i + 1)
        ELSE IF text[i] \in {"true", "false"} THEN Decoded(JBool(text[i]), i + 1)
        ELSE JSONDecodeError

json_members(text, i, keys, vals) ==
    IF i > Len(text) \/ text[i] # DQ THEN JSONDecodeError
    ELSE LET key == json_string(text, i + 1, << >>)
             colon == skip_ws(text, key.next)
         IN  IF ~key.ok \/ colon > Len(text) \/ text[colon] # COLON THEN JSONDecodeError
             ELSE LET value == json_value(text, colon + 1)
                      after == skip_ws(text, value.next)
                  IN  IF ~value.ok \/ after > Len(text) THEN JSONDecodeError
                      ELSE IF text[after] = RB
                      THEN Decoded(JObj(Append(keys, key.val.s), Append(vals, value.val)),
                                   after + 1)
                      ELSE IF text[after] = COMMA
                      THEN json_members(text, skip_ws(text, after + 1),
                                        Append(keys, key.val.s), Append(vals, value.val))
                      ELSE JSONDecodeError

json_elements(text, i, vals) ==
    LET value == json_value(text, i)
        after == skip_ws(text, value.next)
    IN  IF ~value.ok \/ after > Len(text) THEN JSONDecodeError
        ELSE IF text[after] = RS THEN Decoded(JArr(Append(vals, value.val)), after + 1)
        ELSE IF text[after] = COMMA THEN json_elements(text, after + 1, Append(vals, value.val))
        ELSE JSONDecodeError

\* json.loads: one value, with nothing but whitespace around it
json_loads(text) ==
    LET value == json_value(text, 1)
    IN  IF value.ok /\ skip_ws(text, value.next) > Len(text) THEN value ELSE JSONDecodeError

\* dict.get(key, default): the value of the last member with this key
dict_get(obj, key, default) ==
    LET at == { i \in 1..Len(obj.keys) : obj.keys[i] = <<key>> }
    IN  IF at = {} THEN default
        ELSE obj.vals[CHOOSE i \in at : \A j \in at : i >= j]

\* repr of a decoded value; the strings of the alphabet hold no quote to escape
RECURSIVE py_repr(_)
RECURSIVE py_repr_items(_, _, _)

py_repr(val) ==
    CASE val.t = "str" -> <<SQ>> \o val.s \o <<SQ>>
      [] val.t = "num" -> val.s
      [] val.t = "null" -> <<"None">>
      [] val.t = "bool" -> IF val.s = <<"true">> THEN <<"True">> ELSE <<"False">>
      [] val.t = "obj" -> <<LB>> \o py_repr_items(val.keys, val.vals, 1) \o <<RB>>
      [] OTHER -> <<LS>> \o py_repr_items(<< >>, val.vals, 1) \o <<RS>>

py_repr_items(keys, vals, i) ==
    IF i > Len(vals) THEN << >>
    ELSE (IF i > 1 THEN <<COMMA, SP>> ELSE << >>)
         \o (IF keys # << >> THEN <<SQ>> \o keys[i] \o <<SQ, COLON, SP>> ELSE << >>)
         \o py_repr(vals[i])
         \o py_repr_items(keys, vals, i + 1)

\* str(value)
py_str(val) == IF val.t = "str" THEN val.s ELSE py_repr(val)

(***************************************************************************)
(* The tolerant parser: _scan_quoted_value, _unescape_fallback_value,      *)
(* _extract_object_like_field, _parse_mode_answer.                         *)
(***************************************************************************)
VALID_QUERY_MODES == {"smalltalk", "official_info"}

MSG_EMPTY_ANSWER == <<"Gemini", "returned", "empty", "answer", "in", "JSON", ".">>
MSG_INVALID_JSON ==
    <<"Gemini", "returned", "invalid", "JSON", "and", "empty", "text", "answer", ".">>

\* _scan_quoted_value: (value, end index), or (None, -1)
RECURSIVE scan_quoted_value_from(_, _, _, _, _)
scan_quoted_value_from(text, i, quote, escaped, out) ==
    IF i > Len(text) THEN [found |-> FALSE, value |-> << >>, end_idx |-> 0]
    ELSE IF escaped THEN scan_quoted_value_from(text, i + 1, quote, FALSE, Append(out, text[i]))
    ELSE IF text[i] = BS THEN scan_quoted_value_from(text, i + 1, quote, TRUE, out)
    ELSE IF text[i] = quote THEN [found |-> TRUE, value |-> out, end_idx |-> i]
    ELSE scan_quoted_value_from(text, i + 1, quote, FALSE, Append(out, text[i]))

scan_quoted_value(text, start, quote) ==
    scan_quoted_value_from(text, start, quote, FALSE, << >>)

\* _unescape_fallback_value
unescape_fallback_value(value, quote) ==
    LET controls == replace(replace(value, <<BS, "n">>, <<NL>>), <<BS, "t">>, <<TAB>>)
        quotes == replace(replace(controls, <<BS, DQ>>, <<DQ>>), <<BS, BS>>, <<BS>>)
    IN  strip(IF quote = SQ THEN replace(quotes, <<BS, SQ>>, <<SQ>>) ELSE quotes)

FieldNone == [found |-> FALSE, value |-> << >>]
FieldValue(value) == [found |-> TRUE, value |-> value]

\* _extract_object_like_field: the while loop for one key quote
RECURSIVE field_search(_, _, _, _)
field_search(text, field, key_quote, search_pos) ==
    LET key_index == find(text, <<key_quote, field, key_quote>>, search_pos)
        colon_index == IF key_index = 0 THEN 0 ELSE find(text, <<COLON>>, key_index + 3)
        value_start == skip_ws(text, colon_index + 1)
    IN  IF key_index = 0 \/ colon_index = 0 \/ value_start > Len(text) THEN FieldNone
        ELSE IF text[value_start] \in {DQ, SQ}
        THEN LET scanned == scan_quoted_value(text, value_start + 1, text[value_start])
             IN  IF scanned.found
                 THEN FieldValue(unescape_fallback_value(scanned.value, text[value_start]))
                 ELSE field_search(text, field, key_quote, key_index + 3)
        ELSE LET stops == { i \in value_start..Len(text) : text[i] \in {COMMA, RB} }
                 end_idx == IF stops = {} THEN Len(text) + 1
                            ELSE CHOOSE i \in stops : \A j \in stops : i <= j
             IN  FieldValue(strip(SubSeq(text, value_start, end_idx - 1)))

\* _extract_object_like_field: None, or the value of the first usable occurrence
extract_object_like_field(text, field) ==
    LET double == field_search(text, field, DQ, 1)
    IN  IF double.found THEN double ELSE field_search(text, field, SQ, 1)

\* what _parse_mode_answer does: it returns (mode, answer), or raises
Parsed(mode, text, path) ==
    [kind |-> "returned", mode |-> mode, answer |-> text, message |-> << >>, path |-> path]
ParseRaises(kind, message, path) ==
    [kind |-> kind, mode |-> "", answer |-> << >>, message |-> message, path |-> path]

\* variant: the mode is lowercased but not looked up in VALID_QUERY_MODES
valid_mode_unchecked(mode_text) ==
    LET mode == lower_text(strip(mode_text))
    IN  IF Len(mode) = 1 THEN mode[1] ELSE "official_info"

\* mode not in VALID_QUERY_MODES: official_info
valid_mode(mode_text) ==
    LET mode == lower_text(strip(mode_text))
    IN  IF Len(mode) = 1 /\ mode[1] \in VALID_QUERY_MODES THEN mode[1] ELSE "official_info"

\* lines 706-710
cleaned_text(raw) ==
    LET cleaned == strip(raw)
    IN  IF cleaned # << >> /\ Head(cleaned) = FENCE
        THEN LET unfenced == strip_fences(cleaned)
             IN  IF unfenced # << >> /\ lower_lexeme(Head(unfenced)) = "json"
                 THEN strip(Tail(unfenced)) ELSE unfenced
        ELSE cleaned

\* lines 712-716
json_candidate(cleaned) ==
    LET start == find(cleaned, <<LB>>, 1)
        end == rfind(cleaned, <<RB>>)
    IN  IF start # 0 /\ end # 0 /\ end > start THEN SubSeq(cleaned, start, end) ELSE cleaned

\* lines 720-733: strict decoding failed
parse_fallback(cleaned) ==
    LET mode_guess == extract_object_like_field(cleaned, "mode")
        answer_guess == extract_object_like_field(cleaned, "answer")
    IN  IF answer_guess.found /\ answer_guess.value # << >>
        THEN Parsed(valid_mode(IF mode_guess.found /\ mode_guess.value # << >>
                               THEN mode_guess.value ELSE <<"official_info">>),
                    answer_guess.value, "scanner")
        ELSE IF strip(cleaned) = << >>
        THEN ParseRaises("RuntimeError", MSG_INVALID_JSON, "raw")
        ELSE Parsed("official_info", strip(cleaned), "raw")

\* variant: an object with an empty answer is returned as it is
parse_strict_keeps_empty(data) ==
    IF data.t # "obj" THEN ParseRaises("AttributeError", << >>, "strict")
    ELSE Parsed(valid_mode(py_str(dict_get(data, "mode", JStr(<<"official_info">>)))),
                strip(py_str(dict_get(data, "answer", JStr(<< >>)))), "strict")

\* lines 735-741: strict decoding gave data
parse_strict(data) ==
    IF data.t # "obj" THEN ParseRaises("AttributeError", << >>, "strict")
    ELSE LET mode == py_str(dict_get(data, "mode", JStr(<<"official_info">>)))
             text == strip(py_str(dict_get(data, "answer", JStr(<< >>))))
         IN  IF text = << >> THEN ParseRaises("RuntimeError", MSG_EMPTY_ANSWER, "strict")
             ELSE Parsed(valid_mode(mode), text, "strict")

\* _parse_mode_answer
parse_mode_answer(raw) ==
    LET cleaned == cleaned_text(raw)
        data == json_loads(json_candidate(cleaned))
    IN  IF data.ok THEN parse_strict(data.val) ELSE parse_fallback(cleaned)

(***************************************************************************)
(* Initial state: module import.                                           *)
(***************************************************************************)
\* the conversation and the questions of the requests to main.py
UserQueries == {"a", "b"}
CtxKey == "ctx:c1"
QueryKey(q) == IF q = "a" THEN "q:c1:a" ELSE "q:c1:b"
CacheKeys == {CtxKey} \cup { QueryKey(q) : q \in UserQueries }

NoRequest == [pc |-> "idle", q |-> "", previous_user_text |-> "", reply |-> "",
              cached |-> FALSE, after_reset |-> FALSE]

NoPosting == [calls |-> 0, slept |-> << >>]

InitState ==
    /\ now = 0
    /\ ticks = 0
    /\ MODEL_SKIP_UNTIL = [m \in ModelNames |-> 0]
    /\ MODEL_PERMANENTLY_UNAVAILABLE = {}
    /\ pc = [p \in Queries |-> "idle"]
    /\ model_idx = [p \in Queries |-> 0]
    /\ tool_idx = [p \in Queries |-> 0]
    /\ attempt = [p \in Queries |-> 0]
    /\ clock_read = [p \in Queries |-> 0]
    /\ http_response = [p \in Queries |-> NoResponse]
    /\ attempted_any_model = [p \in Queries |-> FALSE]
    /\ posting = [p \in Queries |-> NoPosting]
    /\ outcome = [p \in Queries |-> NoOutcome]
    /\ last_try = [p \in Queries |-> NoTry]
    /\ perm_at_start = [p \in Queries |-> {}]
    /\ skipped = [p \in Queries |-> {}]
    /\ failover = [p \in Queries |-> NoTry]
    /\ ever_404 = {}
    /\ call = [t \in Threads |-> NoCall]
    /\ reply_pc = "idle"
    /\ web = NoWeb
    /\ answer = << >>
    /\ sources = << >>
    /\ removed_unverified_links = FALSE
    /\ failed_urls = << >>
    /\ verified_urls = {}
    /\ reply = NoReply
    /\ chat_calls = 0
    /\ cache = [key \in CacheKeys |-> ""]
    /\ session = [t \in Threads |-> NoRequest]
    /\ reset_pc = "idle"

InitEngine == cfg \in Scenarios /\ InitState

NoAnswer == [kind |-> "none", answer |-> << >>, status |-> ""]
NoParse == [kind |-> "none", mode |-> "", answer |-> << >>, message |-> << >>, path |-> ""]

NoResult == [kind |-> "none", url |-> ""]

\* bot/telegram_bot.py: the chats and the updates being handled at the same time
BotChats == {"c1", "c2"}
Updates == {"u1", "u2", "u3"}

NoUpdate == [pc |-> "idle", chat |-> "", in_progress |-> FALSE, backend |-> 0, engine |-> 0,
             answer |-> "", sent |-> ""]

\* no chat has a lock yet (line 44), no update is being handled
InitBot ==
    /\ chat_locks = [c \in BotChats |-> "none"]
    /\ run_query = [u \in Updates |-> NoUpdate]

InitRest ==
    /\ InitBot
    /\ batch_pc = "idle"
    /\ batch_urls = << >>
    /\ pending = {}
    /\ in_flight = {}
    /\ completion = << >>
    /\ batch_verified = << >>
    /\ batch_result = "none"
    /\ verify_pc = "idle"
    /\ verify_url = ""
    /\ candidate = ""
    /\ final_url = ""
    /\ verify_result = NoResult
    /\ probes = << >>
    /\ unit_pc = "idle"
    /\ unit_in = << >>
    /\ unit_out = << >>

InitUnits ==
    /\ parse_pc = "idle"
    /\ raw_text = << >>
    /\ parse_cleaned = << >>
    /\ parsed = NoParse
    /\ query_pc = "idle"
    /\ upstream = NoOutcome
    /\ raised = NoOutcome
    /\ response = NoAnswer
    /\ InitRest

Init == InitEngine /\ InitUnits

registry == <<MODEL_SKIP_UNTIL, MODEL_PERMANENTLY_UNAVAILABLE, ever_404>>
clock == <<now, ticks>>

\* time passes
Tick ==
    /\ ticks < MaxTicks
    /\ \E dt \in TickSteps : now' = now + dt
    /\ ticks' = ticks + 1
    /\ UNCHANGED <<notChat, posting, cfg, registry, pc, model_idx, tool_idx, attempt, clock_read,
                   http_response, attempted_any_model, outcome, last_try, perm_at_start, skipped, failover>>

\* _chat is called: lines 575-590
ChatStart(p) ==
    /\ p \in cfg.queries
    /\ pc[p] = "idle"
    /\ IF ~cfg.GEMINI_API_KEY
       THEN /\ outcome' = [outcome EXCEPT ![p] = RuntimeError(MSG_API_KEY_MISSING)]
            /\ pc' = [pc EXCEPT ![p] = "done"]
            /\ UNCHANGED model_idx
       ELSE /\ pc' = [pc EXCEPT ![p] = "loop"]
            /\ model_idx' = [model_idx EXCEPT ![p] = 1]
            /\ UNCHANGED outcome
    /\ perm_at_start' = [perm_at_start EXCEPT ![p] = ever_404]
    /\ UNCHANGED <<notChat, posting, cfg, clock, registry, tool_idx, attempt, clock_read, http_response,
                   attempted_any_model, last_try, skipped, failover>>

\* the model loop has run out: lines 687-690
ChatLoopExhausted(p) ==
    /\ pc[p] = "loop"
    /\ model_idx[p] > Len(model_attempts)
    /\ outcome' = [outcome EXCEPT ![p] = loop_exhausted_error(attempted_any_model[p])]
    /\ pc' = [pc EXCEPT ![p] = "done"]
    /\ UNCHANGED <<notChat, posting, cfg, clock, registry, model_idx, tool_idx, attempt, clock_read,
                   http_response, attempted_any_model, last_try, perm_at_start, skipped, failover>>

\* _model_skip_reason, line 459: the clock is read before the lock is taken
SkipReasonReadClock(p) ==
    /\ pc[p] = "loop"
    /\ model_idx[p] <= Len(model_attempts)
    /\ clock_read' = [clock_read EXCEPT ![p] = now]
    /\ pc' = [pc EXCEPT ![p] = "skip_check"]
    /\ UNCHANGED <<notChat, posting, cfg, clock, registry, model_idx, tool_idx, attempt, http_response,
                   attempted_any_model, outcome, last_try, perm_at_start, skipped, failover>>

\* _model_skip_reason, lines 460-466 (under the lock), and _chat, lines 592-600
ModelSkipCheck(p) ==
    /\ pc[p] = "skip_check"
    /\ LET skip_reason == model_skip_reason(MODEL_PERMANENTLY_UNAVAILABLE,
                                            MODEL_SKIP_UNTIL, cur_model(p), clock_read[p])
       IN  IF skip_reason # ""
           THEN /\ model_idx' = [model_idx EXCEPT ![p] = @ + 1]
                /\ pc' = [pc EXCEPT ![p] = "loop"]
                /\ skipped' = [skipped EXCEPT ![p] = @ \cup {cur_model(p)}]
                /\ UNCHANGED <<attempted_any_model, tool_idx, attempt, posting>>
           ELSE /\ attempted_any_model' = [attempted_any_model EXCEPT ![p] = TRUE]
                /\ tool_idx' = [tool_idx EXCEPT ![p] = 1]
                /\ attempt' = [attempt EXCEPT ![p] = 1]
                /\ posting' = [posting EXCEPT ![p] = next_post_call(@)]
                /\ pc' = [pc EXCEPT ![p] = "post"]
                /\ UNCHANGED <<model_idx, skipped>>
    /\ clock_read' = [clock_read EXCEPT ![p] = 0]
    /\ UNCHANGED <<notChat, cfg, clock, registry, http_response, outcome, last_try,
                   perm_at_start, failover>>

\* how the attempt on the current (model, tool) pair ended; for a transport
\* failure, status holds the number of POSTs that were sent
TryEnded(p, result, status) ==
    [model |-> cur_model(p), tool |-> cur_tool(p), result |-> result, status |-> status]

\* requests.post raises a RequestException and attempts remain:
\* _post_gemini_with_retries, lines 554-567 (the sleep is recorded, time does not pass in the step)
PostTransportRetry(p) ==
    /\ pc[p] = "post"
    /\ attempt[p] < total_attempts
    /\ posting' = [posting EXCEPT ![p].slept =
                        Append(@, GEMINI_RETRY_BACKOFF_SECONDS * attempt[p])]
    /\ attempt' = [attempt EXCEPT ![p] = @ + 1]
    /\ UNCHANGED <<notChat, cfg, clock, registry, pc, model_idx, tool_idx, clock_read,
                   http_response, attempted_any_model, outcome, last_try, perm_at_start, skipped, failover>>

\* requests.post raises a RequestException on the last attempt:
\* _post_gemini_with_retries, lines 554-570, then _chat's handler, lines 667-682
PostTransportFailure(p) ==
    /\ pc[p] = "post"
    /\ attempt[p] >= total_attempts
    /\ last_try' = [last_try EXCEPT ![p] = TryEnded(p, "RequestException", attempt[p])]
    /\ IF request_exception_next(is_last_tool(p)) = "next_tool"
       THEN /\ tool_idx' = [tool_idx EXCEPT ![p] = @ + 1]
            /\ attempt' = [attempt EXCEPT ![p] = 1]
            /\ posting' = [posting EXCEPT ![p] = next_post_call(@)]
            /\ UNCHANGED <<pc, outcome>>
       ELSE /\ outcome' = [outcome EXCEPT ![p] = RequestException]
            /\ pc' = [pc EXCEPT ![p] = "done"]
            /\ UNCHANGED <<tool_idx, attempt, posting>>
    /\ UNCHANGED <<notChat, cfg, clock, registry, model_idx, clock_read, http_response,
                   attempted_any_model, perm_at_start, skipped, failover>>

\* the upstream answers with an error status: raise_for_status, lines 612 and 623-634,
\* up to the clock reading of _mark_model_unavailable, line 438
PostHttpError(p) ==
    /\ pc[p] = "post"
    /\ \E status \in ErrorStatuses : \E body \in ErrorBodies(status) :
          /\ http_response' = [http_response EXCEPT ![p] = [status |-> status, body |-> body]]
          /\ last_try' = [last_try EXCEPT ![p] = TryEnded(p, "HTTPError", status)]
    /\ clock_read' = [clock_read EXCEPT ![p] = now]
    /\ pc' = [pc EXCEPT ![p] = "mark"]
    /\ UNCHANGED <<notChat, posting, cfg, clock, registry, model_idx, tool_idx, attempt,
                   attempted_any_model, outcome, perm_at_start, skipped, failover>>

\* variant: a 200 response without text is handled like a transport failure
PostSuccessTriesOn(p) ==
    /\ pc[p] = "post"
    /\ \E data \in ResponseData :
          IF data = "answer"
          THEN /\ outcome' = [outcome EXCEPT ![p] = ChatResult(cur_model(p), cur_tool(p))]
               /\ last_try' = [last_try EXCEPT ![p] = TryEnded(p, "ChatResult", 200)]
               /\ pc' = [pc EXCEPT ![p] = "done"]
               /\ UNCHANGED <<tool_idx, attempt, posting>>
          ELSE /\ last_try' = [last_try EXCEPT ![p] = TryEnded(p, "RuntimeError", 200)]
               /\ IF is_last_tool(p)
                  THEN /\ outcome' = [outcome EXCEPT ![p] =
                              RuntimeError(extract_answer_text_error(data))]
                       /\ pc' = [pc EXCEPT ![p] = "done"]
                       /\ UNCHANGED <<tool_idx, attempt, posting>>
                  ELSE /\ tool_idx' = [tool_idx EXCEPT ![p] = @ + 1]
                       /\ attempt' = [attempt EXCEPT ![p] = 1]
                       /\ posting' = [posting EXCEPT ![p] = next_post_call(@)]
                       /\ UNCHANGED <<pc, outcome>>
    /\ UNCHANGED <<notChat, cfg, clock, registry, model_idx, clock_read,
                   http_response, attempted_any_model, perm_at_start, skipped, failover>>

\* the upstream answers 200: lines 613-622 and _extract_answer_text
PostSuccess(p) ==
    /\ pc[p] = "post"
    /\ \E data \in ResponseData :
          IF data = "answer"
          THEN /\ outcome' = [outcome EXCEPT ![p] = ChatResult(cur_model(p), cur_tool(p))]
               /\ last_try' = [last_try EXCEPT ![p] = TryEnded(p, "ChatResult", 200)]
          ELSE /\ outcome' = [outcome EXCEPT ![p] =
                      RuntimeError(extract_answer_text_error(data))]
               /\ last_try' = [last_try EXCEPT ![p] = TryEnded(p, "RuntimeError", 200)]
    /\ pc' = [pc EXCEPT ![p] = "done"]
    /\ UNCHANGED <<notChat, posting, cfg, clock, registry, model_idx, tool_idx, attempt, clock_read,
                   http_response, attempted_any_model, perm_at_start, skipped, failover>>

\* _mark_model_unavailable, lines 439-455 (under the lock), then _chat, lines 635-666
MarkModelUnavailable(p) ==
    /\ pc[p] = "mark"
    /\ LET status == http_response[p].status
           body == http_response[p].body
           next == http_error_next(status, cur_tool(p) # "none",
                                   is_last_tool(p), is_last_model(p))
       IN  /\ MODEL_PERMANENTLY_UNAVAILABLE' =
                  mark_permanent(MODEL_PERMANENTLY_UNAVAILABLE, cur_model(p), status)
           /\ MODEL_SKIP_UNTIL' =
                  mark_skip_until(MODEL_SKIP_UNTIL, cur_model(p), status,
                                  clock_read[p], body)
           /\ ever_404' = IF status = 404 THEN ever_404 \cup {cur_model(p)} ELSE ever_404
           /\ CASE next = "next_tool" ->
                     /\ tool_idx' = [tool_idx EXCEPT ![p] = @ + 1]
                     /\ attempt' = [attempt EXCEPT ![p] = 1]
                     /\ posting' = [posting EXCEPT ![p] = next_post_call(@)]
                     /\ pc' = [pc EXCEPT ![p] = "post"]
                     /\ UNCHANGED <<model_idx, outcome, failover>>
                [] next = "next_model" ->
                     /\ model_idx' = [model_idx EXCEPT ![p] = @ + 1]
                     /\ tool_idx' = [tool_idx EXCEPT ![p] = 0]
                     /\ attempt' = [attempt EXCEPT ![p] = 0]
                     /\ pc' = [pc EXCEPT ![p] = "loop"]
                     /\ failover' = [failover EXCEPT ![p] = last_try[p]]
                     /\ UNCHANGED <<outcome, posting>>
                [] OTHER ->
                     /\ outcome' = [outcome EXCEPT ![p] = HTTPError(status)]
                     /\ pc' = [pc EXCEPT ![p] = "done"]
                     /\ UNCHANGED <<model_idx, tool_idx, attempt, failover, posting>>
    /\ http_response' = [http_response EXCEPT ![p] = NoResponse]
    /\ clock_read' = [clock_read EXCEPT ![p] = 0]
    /\ UNCHANGED <<notChat, cfg, clock, attempted_any_model, last_try, perm_at_start,
                   skipped>>

\* the caller has taken what _chat returned or raised
ChatReturn(p) ==
    /\ pc[p] = "done"
    /\ pc' = [pc EXCEPT ![p] = "idle"]
    /\ model_idx' = [model_idx EXCEPT ![p] = 0]
    /\ tool_idx' = [tool_idx EXCEPT ![p] = 0]
    /\ attempt' = [attempt EXCEPT ![p] = 0]
    /\ attempted_any_model' = [attempted_any_model EXCEPT ![p] = FALSE]
    /\ outcome' = [outcome EXCEPT ![p] = NoOutcome]
    /\ last_try' = [last_try EXCEPT ![p] = NoTry]
    /\ perm_at_start' = [perm_at_start EXCEPT ![p] = {}]
    /\ skipped' = [skipped EXCEPT ![p] = {}]
    /\ failover' = [failover EXCEPT ![p] = NoTry]
    /\ posting' = [posting EXCEPT ![p] = NoPosting]
    /\ UNCHANGED <<notChat, cfg, clock, registry, clock_read, http_response>>

(***************************************************************************)
(* Direct calls of the registry by concurrent threads.                     *)
(***************************************************************************)
RegistryModel == "m1"
RegistryStatuses == {403, 404, 429, 500}
RegistryErrorBodies(status) == IF status \in {403, 429} THEN RegistryBodies ELSE { << >> }

\* _mark_model_unavailable(model_name, status, error_text) is called: line 438
MarkCall(t) ==
    /\ call[t].op = "none"
    /\ \E status \in RegistryStatuses : \E body \in RegistryErrorBodies(status) :
          call' = [call EXCEPT ![t] = [op |-> "mark", model |-> RegistryModel,
                                       status |-> status, body |-> body, clock |-> now]]
    /\ UNCHANGED <<sessionVars, chatVars, replyVars, unitVars>>

\* _mark_model_unavailable, lines 439-455, under the lock
MarkLocked(t) ==
    /\ call[t].op = "mark"
    /\ MODEL_PERMANENTLY_UNAVAILABLE' =
           mark_permanent(MODEL_PERMANENTLY_UNAVAILABLE, call[t].model, call[t].status)
    /\ MODEL_SKIP_UNTIL' =
           mark_skip_until(MODEL_SKIP_UNTIL, call[t].model, call[t].status,
                           call[t].clock, call[t].body)
    /\ ever_404' = IF call[t].status = 404 THEN ever_404 \cup {call[t].model} ELSE ever_404
    /\ call' = [call EXCEPT ![t].op = "returned"]
    /\ UNCHANGED <<cfg, clock, pc, model_idx, tool_idx, attempt, clock_read,
                   http_response, attempted_any_model, outcome, last_try, perm_at_start,
                   skipped, failover, posting, replyVars, unitVars, sessionVars>>

\* the caller goes on
MarkReturn(t) ==
    /\ call[t].op = "returned"
    /\ call' = [call EXCEPT ![t] = NoCall]
    /\ UNCHANGED <<sessionVars, chatVars, replyVars, unitVars>>

NextRegistry ==
    \/ Tick
    \/ \E t \in Threads : MarkCall(t)
    \/ \E t \in Threads : MarkLocked(t)
    \/ \E t \in Threads : MarkReturn(t)

InitRegistry == Init /\ cfg.GEMINI_API_KEY /\ cfg.queries = {"q1", "q2"}

SpecRegistry == InitRegistry /\ [][NextRegistry]_vars

Next ==
    \/ Tick
    \/ \E p \in Queries : ChatStart(p)
    \/ \E p \in Queries : ChatLoopExhausted(p)
    \/ \E p \in Queries : SkipReasonReadClock(p)
    \/ \E p \in Queries : ModelSkipCheck(p)
    \/ \E p \in Queries : PostTransportRetry(p)
    \/ \E p \in Queries : PostTransportFailure(p)
    \/ \E p \in Queries : PostHttpError(p)
    \/ \E p \in Queries : PostSuccess(p)
    \/ \E p \in Queries : MarkModelUnavailable(p)
    \/ \E p \in Queries : ChatReturn(p)

Spec == Init /\ [][Next]_vars

(***************************************************************************)
(* _classify_and_reply_internal.  _chat is taken by what it hands back: the *)
(* answer text that _parse_mode_answer extracts from its text, and the      *)
(* grounding chunks of the upstream response.                               *)
(***************************************************************************)
ChatTexts ==
    { <<Word("hello")>>,
      <<Word("see"), Url("https://u1", ".")>>,
      <<Word("see"), Url("https://u2", "")>>,
      <<Url("https://u2", "")>>,
      <<Word("see"), Url("https://v1", "")>>,
      <<Word("see"), Url("https://u1", ""), Url("https://u2", ".")>> }

ChunkLists ==
    { << >>,
      << [uri |-> "https://u1", title |-> <<Word("AKTU")>>] >>,
      << [uri |-> "https://u1", title |-> << >>] >>,
      << [uri |-> "https://u2", title |-> << >>],
         [uri |-> "https://u1", title |-> <<Word("AKTU")>>] >>,
      << [uri |-> "", title |-> <<Word("AKGEC")>>],
         [uri |-> "https://v1", title |-> <<Word("notice"), Url("https://u2", "")>>] >>,
      << [uri |-> "https://u1", title |-> <<Word("AKTU")>>],
         [uri |-> "https://v1", title |-> <<Word("AKTU")>>] >> }

has_answer_urls(text) == extract_urls(text) # << >>

\* variant: the grounding sources are not consulted
with_alternative_link_ignored(text, removed, srcs, failed) ==
    [answer |-> text, removed_unverified_links |-> removed]

\* lines 773-778 and 801-806: a verified grounding source takes the place of the
\* links that were removed
with_alternative_link(text, removed, srcs, failed) ==
    LET alternative_source_url == pick_alternative_source_url(srcs, failed)
    IN  IF removed /\ ~has_answer_urls(text) /\ alternative_source_url # ""
        THEN [answer |-> append_official_link(text, alternative_source_url),
              removed_unverified_links |-> FALSE]
        ELSE [answer |-> text, removed_unverified_links |-> removed]

\* lines 753-769: _chat returns; its sources are those of _extract_answer_text
ReplyChatReturns ==
    /\ reply_pc = "idle"
    /\ \E w \in Webs, text \in ChatTexts, chunks \in ChunkLists :
          /\ web' = w
          /\ answer' = text
          /\ sources' = extract_grounding_sources(chunks, w)
          /\ verified_urls' = grounding_verified(chunks, w)
    /\ chat_calls' = chat_calls + 1
    /\ reply_pc' = "sanitize"
    /\ UNCHANGED <<sessionVars, chatVars, call, unitVars, removed_unverified_links, failed_urls, reply>>

\* lines 753-769: _chat or _parse_mode_answer raises
ReplyChatRaises ==
    /\ reply_pc = "idle"
    /\ reply' = [kind |-> "raised", answer |-> << >>]
    /\ chat_calls' = chat_calls + 1
    /\ reply_pc' = "done"
    /\ UNCHANGED <<sessionVars, chatVars, call, unitVars, web, answer, sources, removed_unverified_links,
                   failed_urls, verified_urls>>

\* lines 770-778
ReplySanitize ==
    /\ reply_pc = "sanitize"
    /\ LET sanitized == sanitize_answer_links(answer, web)
           linked == with_alternative_link(sanitized.sanitized, sanitized.removed_unverified,
                                           sources, sanitized.failed_urls)
       IN  /\ answer' = linked.answer
           /\ removed_unverified_links' = linked.removed_unverified_links
           /\ failed_urls' = sanitized.failed_urls
           /\ verified_urls' = verified_urls \cup sanitize_verified(answer, web)
           /\ reply_pc' = IF linked.removed_unverified_links /\ ~has_answer_urls(linked.answer)
                          THEN "retry" ELSE "finish"
    /\ UNCHANGED <<sessionVars, chatVars, call, unitVars, web, sources, reply, chat_calls>>

\* lines 780-806, with _retry_for_alternative_link: the second _chat returns
ReplyRetryReturns ==
    /\ reply_pc = "retry"
    /\ LINK_RETRY_ATTEMPTS >= 1
    /\ \E text \in ChatTexts, chunks \in ChunkLists :
          LET sanitized == sanitize_answer_links(text, web)
              retry_answer == sanitized.sanitized
              retry_sources == extract_grounding_sources(chunks, web)
              linked == with_alternative_link(retry_answer, sanitized.removed_unverified,
                                              retry_sources, failed_urls)
          IN  /\ IF retry_answer # << >>
                 THEN /\ answer' = linked.answer
                      /\ sources' = retry_sources
                      /\ removed_unverified_links' = linked.removed_unverified_links
                 ELSE UNCHANGED <<answer, sources, removed_unverified_links>>
              /\ verified_urls' = verified_urls \cup sanitize_verified(text, web)
                                                \cup grounding_verified(chunks, web)
    /\ chat_calls' = chat_calls + 1
    /\ reply_pc' = "finish"
    /\ UNCHANGED <<sessionVars, chatVars, call, unitVars, web, failed_urls, reply>>

\* variant: the exception of the retry leaves _classify_and_reply_internal
ReplyRetryRaisesThrough ==
    /\ reply_pc = "retry"
    /\ reply' = [kind |-> "raised", answer |-> << >>]
    /\ chat_calls' = chat_calls + 1
    /\ reply_pc' = "done"
    /\ UNCHANGED <<sessionVars, chatVars, call, unitVars, web, answer, sources, removed_unverified_links,
                   failed_urls, verified_urls>>

\* lines 807-812: the second _chat, or the parsing of its text, raises
ReplyRetryRaises ==
    /\ reply_pc = "retry"
    /\ chat_calls' = chat_calls + 1
    /\ reply_pc' = "finish"
    /\ UNCHANGED <<sessionVars, chatVars, call, unitVars, web, answer, sources, removed_unverified_links,
                   failed_urls, verified_urls, reply>>

\* lines 814-826
ReplyFinish ==
    /\ reply_pc = "finish"
    /\ LET listed == append_sources(answer, sources)
       IN  reply' = [kind |-> "returned",
                     answer |-> IF removed_unverified_links /\ ~has_answer_urls(answer)
                                THEN listed \o NOTE_NO_LINK ELSE listed]
    /\ reply_pc' = "done"
    /\ UNCHANGED <<sessionVars, chatVars, call, unitVars, web, answer, sources, removed_unverified_links,
                   failed_urls, verified_urls, chat_calls>>

\* the next query
ReplyNext ==
    /\ reply_pc = "done"
    /\ reply_pc' = "idle"
    /\ web' = NoWeb
    /\ answer' = << >>
    /\ sources' = << >>
    /\ removed_unverified_links' = FALSE
    /\ failed_urls' = << >>
    /\ verified_urls' = {}
    /\ reply' = NoReply
    /\ chat_calls' = 0
    /\ UNCHANGED <<sessionVars, chatVars, call, unitVars>>

NextReply ==
    \/ ReplyChatReturns
    \/ ReplyChatRaises
    \/ ReplySanitize
    \/ ReplyRetryReturns
    \/ ReplyRetryRaises
    \/ ReplyFinish
    \/ ReplyNext

InitReply == Init /\ cfg.GEMINI_API_KEY /\ cfg.GEMINI_ENABLE_GOOGLE_SEARCH /\ cfg.GEMINI_MODEL = "m1"

SpecReply == InitReply /\ [][NextReply]_vars

(***************************************************************************)
(* _parse_mode_answer on its own: the texts the upstream model can return. *)
(***************************************************************************)
MaxPieces == 2

\* what the text between two quotes is made of
ValuePieces ==
    {<<"hi">>, <<"n">>, <<SP>>, <<NL>>, <<DQ>>, <<SQ>>,
     <<BS, "n">>, <<BS, "t">>, <<BS, DQ>>, <<BS, SQ>>, <<BS, BS>>}

RECURSIVE ValuesOf(_)
ValuesOf(n) ==
    IF n = 0 THEN {<< >>}
    ELSE LET shorter == ValuesOf(n - 1)
         IN  shorter \cup { v \o piece : v \in shorter, piece \in ValuePieces }

Values == ValuesOf(MaxPieces)
PlainValues == {<< >>, <<"hi">>, <<"hi", SP, "n">>, <<SP>>}
ModeValues == {<< >>, <<"smalltalk">>, <<"SMALLTALK">>, <<"official_info">>,
               <<"Official_Info", SP>>, <<"chat">>}

Quoted(quote, value) == <<quote>> \o value \o <<quote>>
Member(quote, key, value) == Quoted(quote, <<key>>) \o <<COLON, SP>> \o value

\* an object, or what the model writes in place of one; "mode_value" empty: no mode key
ObjectText(quote, mode_value, answer_value, trailing_comma) ==
    <<LB>>
    \o (IF mode_value = << >> THEN << >>
        ELSE Member(quote, "mode", Quoted(quote, mode_value)) \o <<COMMA, SP>>)
    \o Member(quote, "answer", Quoted(quote, answer_value))
    \o (IF trailing_comma THEN <<COMMA>> ELSE << >>)
    \o <<RB>>

Fenced(text) == <<FENCE, "JSON", NL>> \o text \o <<NL, FENCE>>
BareFenced(text) == <<FENCE, NL>> \o text \o <<NL, FENCE>>
Prose(text) == <<"hi", SP>> \o text \o <<SP>>

OtherTexts ==
    {<< >>, <<SP, NL>>, <<"hi", SP, "there">>, <<FENCE, FENCE>>,
     <<"42">>, <<"null">>, <<"true">>, <<DQ, "hi", DQ>>, <<LS, "5", COMMA, SP, "42", RS>>,
     <<LB, RB>>, <<RB, SP, LB>>,
     <<LB>> \o Member(DQ, "mode", Quoted(DQ, <<"smalltalk">>)) \o <<RB>>,
     <<LB>> \o Member(DQ, "answer", <<"null">>) \o <<RB>>,
     <<LB>> \o Member(DQ, "answer", <<"5">>) \o <<RB>>,
     <<LB>> \o Member(DQ, "answer", <<"hi">>) \o <<COMMA, SP>>
            \o Member(DQ, "mode", <<"smalltalk">>) \o <<RB>>,
     <<LB>> \o Member(DQ, "answer", << >>) \o <<COMMA, RB>>,
     <<LB>> \o Member(DQ, "answer", <<DQ, "hi">>) \o <<RB>>,
     <<LB>> \o Member(DQ, "mode", <<"5">>) \o <<COMMA>>
            \o Member(DQ, "answer", <<LS, DQ, "hi", DQ, RS>>) \o <<RB>>,
     <<LB>> \o Member(DQ, "mode", Quoted(DQ, <<"smalltalk">>)) \o <<COMMA>>
            \o Member(DQ, "answer", ObjectText(DQ, << >>, <<"hi">>, FALSE)) \o <<RB>>,
     <<LB>> \o Member(DQ, "answer", Quoted(DQ, <<"hi">>)) \o <<COMMA>>
            \o Member(DQ, "answer", Quoted(DQ, << >>)) \o <<RB>>,
     ObjectText(DQ, << >>, <<"hi">>, FALSE) \o <<SP, RB>>}

RawTexts ==
    { ObjectText(DQ, <<"smalltalk">>, v, comma) : v \in Values, comma \in BOOLEAN }
    \cup { ObjectText(SQ, <<"smalltalk">>, v, TRUE) : v \in Values }
    \cup { Fenced(ObjectText(DQ, <<"smalltalk">>, v, FALSE)) : v \in Values }
    \cup { ObjectText(DQ, << >>, <<"hi", SP>> \o v \o <<SP, "there">>, TRUE) : v \in Values }
    \cup UNION { { text, Fenced(text), BareFenced(text), Prose(text) } :
                 text \in { ObjectText(quote, m, v, comma) :
                            quote \in {DQ, SQ}, m \in ModeValues, v \in PlainValues,
                            comma \in BOOLEAN } }
    \cup OtherTexts

\* lines 706-716
ParseClean ==
    /\ parse_pc = "called"
    /\ parse_cleaned' = cleaned_text(raw_text)
    /\ parse_pc' = "decode"
    /\ UNCHANGED <<sessionVars, chatVars, call, replyVars, queryVars, restVars, raw_text, parsed>>

\* lines 718-719 and 735-741: json.loads returns
ParseStrict ==
    /\ parse_pc = "decode"
    /\ LET data == json_loads(json_candidate(parse_cleaned))
       IN  /\ data.ok
           /\ parsed' = parse_strict(data.val)
    /\ parse_pc' = "done"
    /\ UNCHANGED <<sessionVars, chatVars, call, replyVars, queryVars, restVars, raw_text, parse_cleaned>>

\* lines 718-733: json.loads raises JSONDecodeError
ParseFallback ==
    /\ parse_pc = "decode"
    /\ ~json_loads(json_candidate(parse_cleaned)).ok
    /\ parsed' = parse_fallback(parse_cleaned)
    /\ parse_pc' = "done"
    /\ UNCHANGED <<sessionVars, chatVars, call, replyVars, queryVars, restVars, raw_text, parse_cleaned>>

NextParse ==
    \/ ParseClean
    \/ ParseStrict
    \/ ParseFallback

InitParse ==
    /\ InitEngine
    /\ cfg.GEMINI_API_KEY /\ cfg.GEMINI_ENABLE_GOOGLE_SEARCH /\ cfg.GEMINI_MODEL = "m1"
    /\ parse_pc = "called"
    /\ raw_text \in RawTexts
    /\ parse_cleaned = << >>
    /\ parsed = NoParse
    /\ query_pc = "idle"
    /\ upstream = NoOutcome
    /\ raised = NoOutcome
    /\ response = NoAnswer
    /\ InitRest

SpecParse == InitParse /\ [][NextParse]_vars

(***************************************************************************)
(* main.query, lines 48-72: the reply and the status tag for an exception  *)
(* of classify_and_reply.                                                   *)
(***************************************************************************)
\* str.lower, word by word
lower_word(w) ==
    CASE w = "GEMINI_API_KEY" -> "gemini_api_key"
      [] w = "All" -> "all"
      [] w = "Gemini" -> "gemini"
      [] w = "JSON" -> "json"
      [] OTHER -> w

lower(message) == [i \in 1..Len(message) |-> lower_word(message[i])]

\* phrase in message
contains(message, phrase) ==
    \E i \in 0..(Len(message) - Len(phrase)) :
        \A j \in 1..Len(phrase) : message[i + j] = phrase[j]

query_failure(exc) ==
    IF exc.kind = "HTTPError"
    THEN IF exc.status = 429
         THEN [reply |-> "AI quota is currently exhausted. Please try again shortly.",
               status |-> "LLM_QUOTA_EXCEEDED"]
         ELSE [reply |-> "AI service is unavailable right now. Please try again.",
               status |-> "LLM_HTTP_ERROR"]
    ELSE IF exc.kind = "RequestException"
    THEN [reply |-> "AI service is taking too long right now. Please try again.",
          status |-> "LLM_TIMEOUT"]
    ELSE IF contains(lower(exc.message), <<"currently", "unavailable">>)
    THEN [reply |-> "All configured AI models are temporarily unavailable. Please try again later.",
          status |-> "LLM_MODELS_UNAVAILABLE"]
    ELSE [reply |-> "AI service is taking too long right now. Please try again.",
          status |-> "LLM_TIMEOUT"]

\* main.query, lines 45-72: the except clauses; any other exception leaves the
\* handler and the client gets an internal server error
query_except(exc) ==
    IF exc.kind \in {"HTTPError", "RequestException", "RuntimeError"}
    THEN [kind |-> "answer", answer |-> <<Word(query_failure(exc).reply)>>,
          status |-> query_failure(exc).status]
    ELSE [kind |-> "internal_error", answer |-> << >>, status |-> ""]

(***************************************************************************)
(* /query: main.query calls classify_and_reply, which calls _chat, parses  *)
(* its text and works on the links of the answer.                          *)
(***************************************************************************)
\* the upstream's 200 response: the texts of the parts of its first candidate
Parts(parts) ==
    [kind |-> "parts", status |-> 200, message |-> << >>, model |-> "", tool |-> "",
     parts |-> parts]
Failure(exc) == [exc EXCEPT !.kind = exc.kind] @@ [parts |-> << >>]

\* a text of lexemes as the words and links the link functions work on
RECURSIVE tokens_of(_)
tokens_of(text) ==
    IF text = << >> THEN << >>
    ELSE IF IsSpace(Head(text)) THEN tokens_of(Tail(text))
    ELSE IF Head(text) \in Urls
    THEN IF Len(text) >= 2 /\ text[2] = "."
         THEN <<Url(Head(text), ".")>> \o tokens_of(SubSeq(text, 3, Len(text)))
         ELSE <<Url(Head(text), "")>> \o tokens_of(Tail(text))
    ELSE <<Word(Head(text))>> \o tokens_of(Tail(text))

\* _extract_answer_text, lines 527-533: the non-blank parts, joined by newlines
RECURSIVE text_parts(_)
text_parts(parts) ==
    IF parts = << >> THEN << >>
    ELSE LET part_text == strip(Head(parts))
             rest == text_parts(Tail(parts))
         IN  IF part_text = << >> THEN rest
             ELSE IF rest = << >> THEN part_text
             ELSE part_text \o <<NL>> \o rest

\* _extract_answer_text, lines 522-536: the text, or the RuntimeError
extract_answer_text(parts) ==
    IF parts = << >> THEN RuntimeError(MSG_EMPTY_CONTENT)
    ELSE IF strip(text_parts(parts)) = << >> THEN RuntimeError(MSG_BLANK_TEXT)
    ELSE [ChatResult("", "") EXCEPT !.message = strip(text_parts(parts))]

\* _classify_and_reply_internal, lines 764-769: the answer is parsed once more when
\* it is itself an object text
nested_parse(first) ==
    IF first.kind # "returned" \/ first.answer = << >> THEN first
    ELSE IF /\ Head(first.answer) = LB
            /\ \/ occurs_in(<<DQ, "answer", DQ>>, first.answer)
               \/ occurs_in(<<SQ, "answer", SQ>>, first.answer)
    THEN LET nested == parse_mode_answer(first.answer)
         IN  IF nested.kind # "returned" THEN nested
             ELSE IF nested.answer # << >> /\ nested.answer # first.answer THEN nested
             ELSE first
    ELSE first

QueryTexts ==
    {<<"hi", SP, "there">>,
     <<"see", SP, "https://u2">>,
     <<"42">>, <<"null">>, <<LS, "5", RS>>,
     ObjectText(DQ, <<"smalltalk">>, <<"hi">>, FALSE),
     Fenced(ObjectText(DQ, <<"SMALLTALK">>, <<"hi">>, FALSE)),
     ObjectText(DQ, <<"official_info">>, <<"see", SP, "https://u1", ".">>, FALSE),
     ObjectText(DQ, << >>, <<"see", SP, "https://u1", SP, "https://u2">>, TRUE),
     ObjectText(DQ, <<"smalltalk">>, << >>, FALSE),
     ObjectText(DQ, << >>, <<SP, NL>>, FALSE),
     ObjectText(DQ, << >>, <<SP>>, TRUE),
     <<LB>> \o Member(DQ, "mode", Quoted(DQ, <<"smalltalk">>)) \o <<RB>>,
     <<LB>> \o Member(DQ, "answer", <<"null">>) \o <<RB>>,
     <<LB>> \o Member(DQ, "answer", ObjectText(DQ, << >>, <<"hi">>, FALSE)) \o <<RB>>,
     ObjectText(DQ, << >>, <<LB, BS, DQ, "answer", BS, DQ, COLON, SP, BS, DQ, BS, DQ, RB>>,
                FALSE)}

PartLists ==
    {<< >>, << <<SP>> >>, << << >>, <<NL, SP>> >>, << <<SP>>, <<"hi">>, <<"there", SP>> >>}
        \cup { <<text>> : text \in QueryTexts }

\* what _chat raises without a text in hand
ChatFailures ==
    { HTTPError(status) : status \in ErrorStatuses }
        \cup {RequestException}
        \cup { RuntimeError(message) :
               message \in {MSG_API_KEY_MISSING, MSG_ALL_UNAVAILABLE, MSG_CHAT_FAILED,
                            MSG_NO_CANDIDATES} }

\* main.query, lines 27-46, and _classify_and_reply_internal, lines 744-763: _chat
\* raises, or gets a 200 response, whose text and sources _extract_answer_text
\* reads; the text goes to _parse_mode_answer
QueryCall ==
    /\ query_pc = "idle"
    /\ reply_pc = "idle"
    /\ parse_pc = "idle"
    /\ \/ \E exc \in ChatFailures :
             /\ upstream' = Failure(exc)
             /\ raised' = exc
             /\ query_pc' = "except"
             /\ UNCHANGED <<web, sources, verified_urls, parse_pc, raw_text>>
       \/ \E parts \in PartLists :
             /\ upstream' = Parts(parts)
             /\ IF extract_answer_text(parts).kind = "ChatResult"
                THEN /\ \E w \in Webs, chunks \in ChunkLists :
                           /\ web' = w
                           /\ sources' = extract_grounding_sources(chunks, w)
                           /\ verified_urls' = grounding_verified(chunks, w)
                     /\ raw_text' = extract_answer_text(parts).message
                     /\ parse_pc' = "called"
                     /\ query_pc' = "parse"
                     /\ UNCHANGED raised
                ELSE /\ raised' = extract_answer_text(parts)
                     /\ query_pc' = "except"
                     /\ UNCHANGED <<web, sources, verified_urls, parse_pc, raw_text>>
    /\ chat_calls' = chat_calls + 1
    /\ UNCHANGED <<sessionVars, chatVars, call, restVars, parse_cleaned, parsed, reply_pc, answer,
                   removed_unverified_links, failed_urls, reply, response>>

\* _classify_and_reply_internal, lines 763-769: _parse_mode_answer is back
QueryParse ==
    /\ query_pc = "parse"
    /\ parse_pc = "done"
    /\ \E result \in {nested_parse(parsed)} :
           IF result.kind = "returned"
           THEN /\ answer' = tokens_of(result.answer)
                /\ reply_pc' = "sanitize"
                /\ query_pc' = "reply"
                /\ UNCHANGED raised
           ELSE /\ raised' = [RuntimeError(result.message) EXCEPT !.kind = result.kind]
                /\ query_pc' = "except"
                /\ UNCHANGED <<answer, reply_pc>>
    /\ UNCHANGED <<sessionVars, chatVars, call, parseVars, restVars, web, sources,
                   removed_unverified_links, failed_urls, verified_urls, reply, chat_calls,
                   upstream, response>>

\* main.query, lines 46-85
QueryRespond ==
    /\ \/ /\ query_pc = "reply"
          /\ reply_pc = "done"
          /\ response' = [kind |-> "answer", answer |-> reply.answer,
                          status |-> "AI_ONE_CALL"]
       \/ /\ query_pc = "except"
          /\ response' = query_except(raised)
    /\ query_pc' = "done"
    /\ UNCHANGED <<sessionVars, chatVars, call, parseVars, restVars, replyVars, upstream, raised>>

NextQuery ==
    \/ QueryCall
    \/ ParseClean
    \/ ParseStrict
    \/ ParseFallback
    \/ QueryParse
    \/ ReplySanitize
    \/ ReplyRetryReturns
    \/ ReplyRetryRaises
    \/ ReplyFinish
    \/ QueryRespond

SpecQuery == InitReply /\ [][NextQuery]_vars

(***************************************************************************)
(* Link verification: _resolve_redirect_url, _verify_working_url and       *)
(* _verify_urls_parallel, with the network as the environment.             *)
(***************************************************************************)
MAX_PARALLEL_LINK_VERIFICATIONS == 4

MALFORMED == "https://[bad"
WRAPPED == "https://r1?url=https://v1"
REDIRECT == "https://vertexaisearch.cloud.google.com/grounding-api-redirect/a"

\* the URLs handed to the verifier, and response.url of the answers it gets
InputUrls == Urls \cup {"", "u1", "ftp://u1", MALFORMED, WRAPPED, REDIRECT}
ResponseUrls == Urls \cup {"", WRAPPED, REDIRECT}

\* urlparse raises ValueError (an unbalanced bracket in the host)
urlparse_raises(url) == url = MALFORMED

\* urlparse: scheme and netloc, parse_qs: the first http(s) value of url, q or u
urlparse(url) ==
    CASE url = "" -> [scheme |-> "", netloc |-> "", target |-> ""]
      [] url = "u1" -> [scheme |-> "", netloc |-> "", target |-> ""]
      [] url = "ftp://u1" -> [scheme |-> "ftp", netloc |-> "u1", target |-> ""]
      [] url = WRAPPED -> [scheme |-> "https", netloc |-> "r1", target |-> "https://v1"]
      [] url = REDIRECT ->
            [scheme |-> "https", netloc |-> "vertexaisearch.cloud.google.com", target |-> ""]
      [] url = "https://u1" -> [scheme |-> "https", netloc |-> "u1", target |-> ""]
      [] url = "https://u2" -> [scheme |-> "https", netloc |-> "u2", target |-> ""]
      [] OTHER -> [scheme |-> "https", netloc |-> "v1", target |-> ""]

\* where the HEAD and GET of _resolve_redirect_url may end: nowhere usable, or on a page
Redirections(url) == IF url = REDIRECT THEN {"", "https://v1"} ELSE {""}

\* _resolve_redirect_url; "redirected" is what its own requests ended on
resolve_redirect_url(url, redirected) ==
    IF urlparse(url).target # "" THEN urlparse(url).target
    ELSE IF url = REDIRECT THEN redirected
    ELSE url

\* what a request of _verify_working_url gives
Statuses == {200, 399, 400, 404}
Raises == [raises |-> TRUE, status |-> 0, url |-> ""]
NetOutcomes ==
    {Raises} \cup { [raises |-> FALSE, status |-> status, url |-> url] :
                    status \in Statuses, url \in ResponseUrls }

\* a request of the loop: its method, whether it raised, the status and the final URL
\* (response.url) of its answer
Probe(method, out) ==
    [method |-> method, raises |-> out.raises, status |-> out.status, url |-> out.url]
Returned(url) == [kind |-> "returned", url |-> url]

\* lines 114-117: after the answer to the GET
get_response_next(status, final) ==
    IF final = "" THEN [next |-> "head", url |-> ""]
    ELSE IF status < 400 THEN [next |-> "returned", url |-> final]
    ELSE [next |-> "head", url |-> ""]

\* variant: an answer below 400 to the HEAD is enough
head_response_next_unconfirmed(status, final) ==
    IF final # "" /\ status < 400 THEN [next |-> "returned", url |-> final]
    ELSE [next |-> "returned", url |-> ""]

\* lines 114-118 and 140: after the answer to the HEAD
head_response_next(status, final) ==
    IF final # "" /\ status < 400 THEN [next |-> "confirm", url |-> final]
    ELSE [next |-> "returned", url |-> ""]

\* lines 133-134 and 140: after the answer to the confirming GET
confirm_response_next(confirm_status, confirm_final) ==
    IF confirm_status < 400 /\ confirm_final # "" THEN confirm_final ELSE ""

UrlLists ==
    {<< >>, <<"https://u1">>, <<MALFORMED>>, <<REDIRECT>>, <<WRAPPED>>, <<"ftp://u1">>,
     <<"u1">>, <<"https://u1", "https://u2">>, <<MALFORMED, "https://u1">>,
     <<"https://u1", "https://u1">>,
     <<"https://u2", WRAPPED, REDIRECT>>}

Min(a, b) == IF a < b THEN a ELSE b
\* variant: as many threads as URLs
worker_count_per_url(urls) == Len(urls)

worker_count(urls) == Min(MAX_PARALLEL_LINK_VERIFICATIONS, Len(urls))

\* the keys of a dict after dict[key] = value: a new key comes last
inserted(keys, key) ==
    IF \E i \in 1..Len(keys) : keys[i] = key THEN keys ELSE Append(keys, key)

\* verified[url] = value
put(dict, key, value) ==
    [k \in DOMAIN dict \cup {key} |-> IF k = key THEN value ELSE dict[k]]

\* _verify_urls_parallel, lines 152-165
BatchCall ==
    /\ batch_pc = "idle"
    /\ \E urls \in UrlLists :
          /\ batch_urls' = urls
          /\ pending' = 1..Len(urls)
          /\ batch_pc' = IF urls = << >> THEN "done" ELSE "running"
          /\ batch_result' = IF urls = << >> THEN "returned" ELSE "none"
    /\ batch_verified' = << >>
    /\ completion' = << >>
    /\ UNCHANGED <<sessionVars, chatVars, call, replyVars, parseVars, queryVars, botVars, helperVars, verifyVars,
                   in_flight>>

\* _verify_working_url, lines 85-92, for the next URL of the comprehension or for
\* any URL submitted to the pool
VerifyCall ==
    /\ batch_pc = "running"
    /\ verify_pc = "idle"
    /\ \E i \in pending :
          /\ worker_count(batch_urls) <= 1 => \A j \in pending : i <= j
          /\ pending' = pending \ {i}
          /\ verify_url' = batch_urls[i]
          /\ IF urlparse_raises(batch_urls[i])
             THEN /\ verify_result' = [kind |-> "ValueError", url |-> ""]
                  /\ verify_pc' = "returned"
                  /\ candidate' = ""
             ELSE \E redirected \in Redirections(batch_urls[i]) :
                     LET resolved == resolve_redirect_url(batch_urls[i], redirected)
                         usable == /\ resolved # ""
                                   /\ urlparse(resolved).scheme \in {"http", "https"}
                                   /\ urlparse(resolved).netloc # ""
                     IN  /\ candidate' = resolved
                         /\ verify_pc' = IF usable THEN "get" ELSE "returned"
                         /\ verify_result' = IF usable THEN NoResult ELSE Returned("")
    /\ final_url' = ""
    /\ probes' = << >>
    /\ UNCHANGED <<sessionVars, chatVars, call, replyVars, parseVars, queryVars, botVars, helperVars, batch_pc, batch_urls,
                   in_flight, completion, batch_verified, batch_result>>

\* lines 93-117 and 137-138: the GET
VerifyGet ==
    /\ verify_pc = "get"
    /\ \E out \in NetOutcomes : \E redirected \in Redirections(out.url) :
          LET after == get_response_next(out.status,
                                         resolve_redirect_url(out.url, redirected))
          IN  /\ probes' = Append(probes, Probe("get", out))
              /\ verify_pc' = IF out.raises THEN "head" ELSE after.next
              /\ verify_result' = IF ~out.raises /\ after.next = "returned"
                                  THEN Returned(after.url) ELSE NoResult
    /\ UNCHANGED <<sessionVars, chatVars, call, replyVars, parseVars, queryVars, botVars, helperVars, batchVars, verify_url,
                   candidate, final_url>>

\* lines 93-118 and 137-140: the HEAD
VerifyHead ==
    /\ verify_pc = "head"
    /\ \E out \in NetOutcomes : \E redirected \in Redirections(out.url) :
          LET after == head_response_next(out.status,
                                          resolve_redirect_url(out.url, redirected))
          IN  /\ probes' = Append(probes, Probe("head", out))
              /\ verify_pc' = IF out.raises THEN "returned" ELSE after.next
              /\ final_url' = IF ~out.raises /\ after.next = "confirm" THEN after.url ELSE ""
              /\ verify_result' = IF out.raises THEN Returned("")
                                  ELSE IF after.next = "returned" THEN Returned(after.url)
                                  ELSE NoResult
    /\ UNCHANGED <<sessionVars, chatVars, call, replyVars, parseVars, queryVars, botVars, helperVars, batchVars, verify_url,
                   candidate>>

\* lines 119-136 and 140: the GET that confirms the HEAD
VerifyConfirm ==
    /\ verify_pc = "confirm"
    /\ \E out \in NetOutcomes : \E redirected \in Redirections(out.url) :
          /\ probes' = Append(probes, Probe("confirm", out))
          /\ verify_result' =
                 IF out.raises THEN Returned("")
                 ELSE Returned(confirm_response_next(
                          out.status, resolve_redirect_url(out.url, redirected)))
    /\ verify_pc' = "returned"
    /\ UNCHANGED <<sessionVars, chatVars, call, replyVars, parseVars, queryVars, botVars, helperVars, batchVars, verify_url,
                   candidate, final_url>>

\* _verify_urls_parallel, line 158 (one worker: the dict comprehension) or lines
\* 166-172 (the pool): the verification of one URL has ended
BatchCollect ==
    /\ batch_pc = "running"
    /\ verify_pc = "returned"
    /\ IF worker_count(batch_urls) <= 1 /\ verify_result.kind # "returned"
       THEN /\ batch_result' = verify_result.kind
            /\ batch_pc' = "done"
            /\ UNCHANGED <<batch_verified, completion>>
       ELSE /\ batch_verified' =
                   put(batch_verified, verify_url,
                       IF verify_result.kind = "returned" THEN verify_result.url ELSE "")
            /\ completion' = inserted(completion, verify_url)
            /\ batch_pc' = IF pending = {} THEN "done" ELSE "running"
            /\ batch_result' = IF pending = {} THEN "returned" ELSE "none"
    /\ verify_pc' = "idle"
    /\ verify_url' = ""
    /\ candidate' = ""
    /\ final_url' = ""
    /\ verify_result' = NoResult
    /\ probes' = << >>
    /\ UNCHANGED <<sessionVars, chatVars, call, replyVars, parseVars, queryVars, botVars, helperVars, batch_urls, pending,
                   in_flight>>

NextVerify ==
    \/ BatchCall
    \/ VerifyCall
    \/ VerifyGet
    \/ VerifyHead
    \/ VerifyConfirm
    \/ BatchCollect

SpecVerify == InitReply /\ [][NextVerify]_vars

(***************************************************************************)
(* _extract_grounding_sources on its own, on responses with more chunks    *)
(* than MAX_VERIFIED_GROUNDING_SOURCES.                                    *)
(***************************************************************************)
MaxChunks == 10

GroundingUrls ==
    <<"https://g1", "https://g2", "https://g3", "https://g4", "https://g5", "https://g6",
      "https://g7", "https://g8", "https://g9", "https://g10", "https://g11", "https://g12">>

\* the chunk at position i of a response: every URI once (cycling), or with repeated
\* and missing URIs in between
PlainChunk(i) ==
    [uri |-> GroundingUrls[((i - 1) % Len(GroundingUrls)) + 1], title |-> <<Word("AKTU")>>]
MixedChunk(i) ==
    [uri |-> IF i % 4 = 0 THEN ""
             ELSE GroundingUrls[(((i * 2) \div 3) % Len(GroundingUrls)) + 1],
     title |-> IF i % 3 = 0 THEN << >> ELSE <<Word("AKTU")>>]

GroundingChunkLists ==
    { [i \in 1..n |-> PlainChunk(i)] : n \in 0..MaxChunks }
        \cup { [i \in 1..n |-> MixedChunk(i)] : n \in 0..MaxChunks + 4 }

\* _verify_working_url on these URIs: some are dead, some end on the same page
GroundingWebs ==
    { [u \in Range(GroundingUrls) |->
          IF \E i \in dead : GroundingUrls[i] = u THEN ""
          ELSE IF \E i \in same : GroundingUrls[i] = u THEN "https://g1"
          ELSE u] :
      dead \in {{}, {2}, {1, 5}, {3, 4, 9}}, same \in {{}, {3}, {2, 6}} }

NoSources == [seen_input_urls |-> {}, seen_urls |-> {}, sources |-> << >>]

\* _extract_grounding_sources, lines 482-512
GroundingCall ==
    /\ unit_pc = "called"
    /\ unit_out' = grounding_walk(unit_in.chunks, unit_in.web, NoSources)
    /\ unit_pc' = "done"
    /\ UNCHANGED <<sessionVars, chatVars, call, replyVars, parseVars, queryVars, botVars, batchVars, verifyVars,
                   unit_in>>

InitHelper ==
    /\ InitEngine
    /\ cfg.GEMINI_API_KEY /\ cfg.GEMINI_ENABLE_GOOGLE_SEARCH /\ cfg.GEMINI_MODEL = "m1"
    /\ parse_pc = "idle"
    /\ raw_text = << >>
    /\ parse_cleaned = << >>
    /\ parsed = NoParse
    /\ query_pc = "idle"
    /\ upstream = NoOutcome
    /\ raised = NoOutcome
    /\ response = NoAnswer
    /\ batch_pc = "idle"
    /\ batch_urls = << >>
    /\ pending = {}
    /\ in_flight = {}
    /\ completion = << >>
    /\ batch_verified = << >>
    /\ batch_result = "none"
    /\ verify_pc = "idle"
    /\ verify_url = ""
    /\ candidate = ""
    /\ final_url = ""
    /\ verify_result = NoResult
    /\ probes = << >>
    /\ unit_pc = "called"
    /\ unit_out = << >>
    /\ InitBot

InitGrounding ==
    /\ InitHelper
    /\ unit_in \in [chunks : GroundingChunkLists, web : GroundingWebs]

SpecGrounding == InitGrounding /\ [][GroundingCall]_vars

(***************************************************************************)
(* The allow-list revision (src/backend/app/ai_engine.py): a grounding URL *)
(* is verified by its host alone.                                          *)
(***************************************************************************)
MaxAllowListChunks == 2

ALLOWED_GROUNDING_DOMAINS == <<"aktu.ac.in", "akgec.ac.in">>

AllowListUrls ==
    {"https://aktu.ac.in/x", "http://www.akgec.ac.in", "https://AKTU.AC.IN/",
     "https://aktu.ac.in:8080/x", "https://user@sub.aktu.ac.in/", "ftp://aktu.ac.in",
     "aktu.ac.in/x", "https://evil.com/aktu.ac.in", "https://evilaktu.ac.in",
     "https://aktu.ac.in.evil.com", "https://aktu.ac.in@evil.com/",
     "https://aktu.ac.in:pw@evil.com/", "https://evil.com@aktu.ac.in/"}

\* urlparse: the scheme, and the netloc as its names and the marks between them
netloc_of(url) ==
    CASE url = "https://aktu.ac.in/x" -> <<"aktu.ac.in">>
      [] url = "http://www.akgec.ac.in" -> <<"www", ".", "akgec.ac.in">>
      [] url = "https://AKTU.AC.IN/" -> <<"AKTU.AC.IN">>
      [] url = "https://aktu.ac.in:8080/x" -> <<"aktu.ac.in", ":", "8080">>
      [] url = "https://user@sub.aktu.ac.in/" -> <<"user", "@", "sub", ".", "aktu.ac.in">>
      [] url = "ftp://aktu.ac.in" -> <<"aktu.ac.in">>
      [] url = "https://evil.com/aktu.ac.in" -> <<"evil.com">>
      [] url = "https://evilaktu.ac.in" -> <<"evilaktu.ac.in">>
      [] url = "https://aktu.ac.in.evil.com" -> <<"aktu.ac.in", ".", "evil.com">>
      [] url = "https://aktu.ac.in@evil.com/" -> <<"aktu.ac.in", "@", "evil.com">>
      [] url = "https://aktu.ac.in:pw@evil.com/" ->
            <<"aktu.ac.in", ":", "pw", "@", "evil.com">>
      [] url = "https://evil.com@aktu.ac.in/" -> <<"evil.com", "@", "aktu.ac.in">>
      [] OTHER -> << >>

scheme_of(url) ==
    CASE url = "http://www.akgec.ac.in" -> "http"
      [] url = "ftp://aktu.ac.in" -> "ftp"
      [] url \in {"", "aktu.ac.in/x"} -> ""
      [] OTHER -> "https"

lower_host(host) ==
    [i \in 1..Len(host) |-> IF host[i] = "AKTU.AC.IN" THEN "aktu.ac.in" ELSE host[i]]

\* str.split(mark, 1)[0]
before_first(host, mark) ==
    LET at == { i \in 1..Len(host) : host[i] = mark }
    IN  IF at = {} THEN host
        ELSE SubSeq(host, 1, (CHOOSE i \in at : \A j \in at : i <= j) - 1)

endswith(text, suffix) ==
    /\ Len(text) >= Len(suffix)
    /\ SubSeq(text, Len(text) - Len(suffix) + 1, Len(text)) = suffix

\* _is_allowed_grounding_host
is_allowed_grounding_host(host) ==
    LET normalized_host == before_first(lower_host(host), ":")
    IN  \E d \in 1..Len(ALLOWED_GROUNDING_DOMAINS) :
           \/ normalized_host = <<ALLOWED_GROUNDING_DOMAINS[d]>>
           \/ endswith(normalized_host, <<".", ALLOWED_GROUNDING_DOMAINS[d]>>)

\* _is_allowed_grounding_url
is_allowed_grounding_url(url) ==
    /\ scheme_of(url) \in {"http", "https"}
    /\ netloc_of(url) # << >>
    /\ is_allowed_grounding_host(netloc_of(url))

\* _verify_working_url of the revision, for every URL in reach
allowed_working_url ==
    [url \in AllowListUrls |-> IF is_allowed_grounding_url(url) THEN url ELSE ""]

AllowListChunkLists ==
    SeqsUpTo({ [uri |-> u, title |-> <<Word("AKTU")>>] : u \in AllowListUrls \cup {""} },
             MaxAllowListChunks)

\* _extract_grounding_sources of the revision
AllowListCall ==
    /\ unit_pc = "called"
    /\ unit_out' = grounding_walk(unit_in, allowed_working_url, NoSources)
    /\ unit_pc' = "done"
    /\ UNCHANGED <<sessionVars, chatVars, call, replyVars, parseVars, queryVars, botVars, batchVars, verifyVars,
                   unit_in>>

InitAllowList == InitHelper /\ unit_in \in AllowListChunkLists

SpecAllowList == InitAllowList /\ [][AllowListCall]_vars

(***************************************************************************)
(* _sanitize_answer_links on the characters of an answer.  An answer is a  *)
(* sequence of lexemes: a whitespace or punctuation character, a word, or  *)
(* "https://" with a host name (which URL_PATTERN cannot split).           *)
(***************************************************************************)
MaxLexemes == 4

LP == "("
RP == ")"
DOT == "."

UrlHeads == {"https://a", "https://b"}
AnswerLexemes == UrlHeads \cup {"w", SP, NL, DOT, LP, RP}
AnswerTexts == SeqsUpTo(AnswerLexemes, MaxLexemes)

\* URL_PATTERN, https?://[^\s<>"]+ : where the match that starts at i ends
RECURSIVE match_end(_, _)
match_end(text, i) ==
    IF i < Len(text) /\ ~IsSpace(text[i + 1]) THEN match_end(text, i + 1) ELSE i

\* re.finditer(URL_PATTERN): the matches as <<start, end>>, from lexeme i on
RECURSIVE url_matches(_, _)
url_matches(text, i) ==
    IF i > Len(text) THEN << >>
    ELSE IF text[i] \in UrlHeads
    THEN <<<<i, match_end(text, i)>>>> \o url_matches(text, match_end(text, i) + 1)
    ELSE url_matches(text, i + 1)

count(text, x) == Cardinality({ i \in 1..Len(text) : text[i] = x })

\* lines 78-79
RECURSIVE strip_trailing_marks(_)
strip_trailing_marks(url) ==
    IF url # << >> /\ url[Len(url)] \in {COMMA, DOT, ";", COLON, "!", "?", RS, RB}
    THEN strip_trailing_marks(SubSeq(url, 1, Len(url) - 1)) ELSE url

\* lines 80-81
RECURSIVE strip_unopened_parens(_)
strip_unopened_parens(url) ==
    IF url # << >> /\ url[Len(url)] = RP /\ count(url, LP) < count(url, RP)
    THEN strip_unopened_parens(SubSeq(url, 1, Len(url) - 1)) ELSE url

\* _normalize_extracted_url of the characters of a match
normalize_url(url) == strip(strip_unopened_parens(strip_trailing_marks(strip(url))))

\* lines 222-229: urls_to_verify
RECURSIVE urls_to_verify(_, _, _)
urls_to_verify(text, matches, urls) ==
    IF matches = << >> THEN urls
    ELSE LET normalized == normalize_url(SubSeq(text, Head(matches)[1], Head(matches)[2]))
         IN  IF normalized = << >> \/ (\E i \in 1..Len(urls) : urls[i] = normalized)
             THEN urls_to_verify(text, Tail(matches), urls)
             ELSE urls_to_verify(text, Tail(matches), Append(urls, normalized))

\* what verification answers for a URL: its final URL when the URL is accepted
verified_form(net, url) ==
    IF url \notin net.accepted THEN << >>
    ELSE IF net.final THEN url \o <<"/v">> ELSE url

\* lines 232-259: the loop over the matches
RECURSIVE links_walk(_, _, _, _, _)
links_walk(text, net, matches, cursor, acc) ==
    IF matches = << >>
    THEN [acc EXCEPT !.out_parts = @ \o SubSeq(text, cursor, Len(text))]
    ELSE LET start == Head(matches)[1]
             end == Head(matches)[2]
             match == SubSeq(text, start, end)
             normalized == normalize_url(match)
             checked == verified_form(net, normalized)
             trailing == SubSeq(match, Len(normalized) + 1, Len(match))
             before == acc.out_parts \o SubSeq(text, cursor, start - 1)
         IN  IF normalized = << >>
             THEN links_walk(text, net, Tail(matches), cursor, acc)
             ELSE IF checked # << >>
             THEN links_walk(text, net, Tail(matches), end + 1,
                             [acc EXCEPT !.out_parts = before \o checked \o trailing])
             ELSE links_walk(text, net, Tail(matches), end + 1,
                             [out_parts |-> before \o trailing,
                              removed_unverified |-> TRUE,
                              failed_urls |->
                                  IF \E i \in 1..Len(acc.failed_urls) :
                                         acc.failed_urls[i] = normalized
                                  THEN acc.failed_urls
                                  ELSE Append(acc.failed_urls, normalized)])

\* line 261: re.sub("[ \t]{2,}", " ")
RECURSIVE squeeze_blanks(_)
squeeze_blanks(text) ==
    IF text = << >> THEN << >>
    ELSE IF Len(text) >= 2 /\ text[1] \in {SP, TAB} /\ text[2] \in {SP, TAB}
    THEN squeeze_blanks(<<SP>> \o Tail(Tail(text)))
    ELSE <<Head(text)>> \o squeeze_blanks(Tail(text))

\* line 262: re.sub("\(\s*\)", "")
RECURSIVE drop_empty_parens(_)
drop_empty_parens(text) ==
    IF text = << >> THEN << >>
    ELSE LET close == skip_ws(text, 2)
         IN  IF Head(text) = LP /\ close <= Len(text) /\ text[close] = RP
             THEN drop_empty_parens(SubSeq(text, close + 1, Len(text)))
             ELSE <<Head(text)>> \o drop_empty_parens(Tail(text))

\* line 263: re.sub("\s+([,.;:!?])", "\1")
RECURSIVE drop_space_before_mark(_)
drop_space_before_mark(text) ==
    IF text = << >> THEN << >>
    ELSE LET mark == skip_ws(text, 1)
         IN  IF IsSpace(Head(text)) /\ mark <= Len(text)
                /\ text[mark] \in {COMMA, DOT, ";", COLON, "!", "?"}
             THEN <<text[mark]>> \o drop_space_before_mark(SubSeq(text, mark + 1, Len(text)))
             ELSE <<Head(text)>> \o drop_space_before_mark(Tail(text))

RECURSIVE skip_sp(_, _)
skip_sp(text, i) == IF i <= Len(text) /\ text[i] = SP THEN skip_sp(text, i + 1) ELSE i

\* line 264: re.sub(" +\n", "\n")
RECURSIVE drop_space_before_newline(_)
drop_space_before_newline(text) ==
    IF text = << >> THEN << >>
    ELSE LET line_end == skip_sp(text, 1)
         IN  IF Head(text) = SP /\ line_end <= Len(text) /\ text[line_end] = NL
             THEN <<NL>> \o drop_space_before_newline(SubSeq(text, line_end + 1, Len(text)))
             ELSE <<Head(text)>> \o drop_space_before_newline(Tail(text))

\* line 265: re.sub("\n{3,}", "\n\n")
RECURSIVE squeeze_newlines(_)
squeeze_newlines(text) ==
    IF text = << >> THEN << >>
    ELSE IF Len(text) >= 3 /\ text[1] = NL /\ text[2] = NL /\ text[3] = NL
    THEN squeeze_newlines(Tail(text))
    ELSE <<Head(text)>> \o squeeze_newlines(Tail(text))

\* lines 260-265
tidy(text) ==
    strip(squeeze_newlines(drop_space_before_newline(drop_space_before_mark(
        drop_empty_parens(squeeze_blanks(text))))))

NoLinks == [out_parts |-> << >>, removed_unverified |-> FALSE, failed_urls |-> << >>]

\* _sanitize_answer_links: (sanitized, removed_unverified, failed_urls)
sanitize_links(text, net) ==
    LET matches == url_matches(text, 1)
        walked == links_walk(text, net, matches, 1, NoLinks)
    IN  IF text = << >> \/ matches = << >>
        THEN [sanitized |-> text, removed_unverified |-> FALSE, failed_urls |-> << >>]
        ELSE [sanitized |-> tidy(walked.out_parts),
              removed_unverified |-> walked.removed_unverified,
              failed_urls |-> walked.failed_urls]

\* the URLs of an answer as _sanitize_answer_links and _extract_urls find them
urls_of(text) == urls_to_verify(text, url_matches(text, 1), << >>)

SanitizeCall ==
    /\ unit_pc = "called"
    /\ unit_out' = sanitize_links(unit_in.answer, unit_in.web)
    /\ unit_pc' = "done"
    /\ UNCHANGED <<sessionVars, chatVars, call, replyVars, parseVars, queryVars, botVars, batchVars, verifyVars,
                   unit_in>>

InitSanitize ==
    /\ InitHelper
    /\ \E text \in AnswerTexts :
          \E S \in SUBSET { urls_of(text)[i] : i \in 1..Len(urls_of(text)) } :
             \E final \in BOOLEAN :
                unit_in = [answer |-> text, web |-> [accepted |-> S, final |-> final]]

SpecSanitize == InitSanitize /\ [][SanitizeCall]_vars

(***************************************************************************)
(* _sanitize_answer_links applied to its own result, with every URL of the *)
(* result verified as itself.                                              *)
(***************************************************************************)
MaxNested == 5

NestedTexts == SeqsUpTo(UrlHeads \cup {"w", SP, LP, RP}, MaxNested)

\* verification that accepts every URL of a text as it stands
AcceptAll(text) ==
    [accepted |-> { urls_of(text)[i] : i \in 1..Len(urls_of(text)) }, final |-> FALSE]

ResanitizeCall ==
    /\ unit_pc = "done"
    /\ unit_in' = [answer |-> unit_out.sanitized, web |-> AcceptAll(unit_out.sanitized)]
    /\ unit_out' = sanitize_links(unit_out.sanitized, AcceptAll(unit_out.sanitized))
    /\ unit_pc' = "again"
    /\ UNCHANGED <<sessionVars, chatVars, call, replyVars, parseVars, queryVars, botVars, batchVars, verifyVars>>

InitResanitize ==
    /\ InitHelper
    /\ \E text \in NestedTexts :
          \E S \in SUBSET { urls_of(text)[i] : i \in 1..Len(urls_of(text)) } :
             unit_in = [answer |-> text, web |-> [accepted |-> S, final |-> FALSE]]

NextResanitize == SanitizeCall \/ ResanitizeCall

SpecResanitize == InitResanitize /\ [][NextResanitize]_vars

(***************************************************************************)
(* main.py: /query and /reset_session of one conversation, each request on *)
(* a thread of its own.  Every call of cache.py is one step.  The entries  *)
(* outlive the requests (30 minutes and one day).                          *)
(***************************************************************************)
QUERY_CACHE_TTL_SECONDS == 1800

\* config.py, line 49: the default
LIVE_SEARCH_BYPASS_CACHE == cfg.GEMINI_ENABLE_GOOGLE_SEARCH

use_cache == ~LIVE_SEARCH_BYPASS_CACHE

\* query, lines 29-34
SessionQueryStart(t) ==
    /\ session[t].pc = "idle"
    /\ \E q \in UserQueries :
          LET cached == IF use_cache THEN cache[QueryKey(q)] ELSE ""
          IN  session' = [session EXCEPT ![t] =
                  [pc |-> IF cached # "" THEN "done" ELSE "context",
                   q |-> q, previous_user_text |-> "",
                   reply |-> cached, cached |-> cached # "",
                   after_reset |-> reset_pc = "returned"]]
    /\ reset_pc' = IF reset_pc = "returned" THEN "served" ELSE reset_pc
    /\ UNCHANGED <<chatVars, call, replyVars, unitVars, cache>>

\* query, lines 36-43
SessionQueryContext(t) ==
    /\ session[t].pc = "context"
    /\ session' = [session EXCEPT ![t].pc = "upstream",
                                  ![t].previous_user_text = cache[CtxKey]]
    /\ UNCHANGED <<chatVars, call, replyVars, unitVars, cache, reset_pc>>

\* query, lines 45-79: classify_and_reply answers, or a fixed answer takes its place
SessionQueryReply(t) ==
    /\ session[t].pc = "upstream"
    /\ \E text \in {"answer", "try again"} :
          session' = [session EXCEPT ![t].pc = "store_context", ![t].reply = text]
    /\ UNCHANGED <<chatVars, call, replyVars, unitVars, cache, reset_pc>>

\* query, lines 81-82
SessionQueryStoreContext(t) ==
    /\ session[t].pc = "store_context"
    /\ cache' = [cache EXCEPT ![CtxKey] = session[t].q]
    /\ session' = [session EXCEPT ![t].pc = "store_reply"]
    /\ UNCHANGED <<chatVars, call, replyVars, unitVars, reset_pc>>

\* query, lines 83-85
SessionQueryStoreReply(t) ==
    /\ session[t].pc = "store_reply"
    /\ cache' = IF use_cache /\ QUERY_CACHE_TTL_SECONDS > 0
                THEN [cache EXCEPT ![QueryKey(session[t].q)] = session[t].reply]
                ELSE cache
    /\ session' = [session EXCEPT ![t].pc = "done"]
    /\ UNCHANGED <<chatVars, call, replyVars, unitVars, reset_pc>>

\* the thread takes the next request
SessionQueryNext(t) ==
    /\ session[t].pc = "done"
    /\ ~session[t].after_reset
    /\ session' = [session EXCEPT ![t] = NoRequest]
    /\ UNCHANGED <<chatVars, call, replyVars, unitVars, cache, reset_pc>>

\* reset_session, line 22
ResetDeleteContext ==
    /\ reset_pc = "idle"
    /\ cache' = [cache EXCEPT ![CtxKey] = ""]
    /\ reset_pc' = "context_deleted"
    /\ UNCHANGED <<chatVars, call, replyVars, unitVars, session>>

\* reset_session, lines 23-24
ResetDeleteQueries ==
    /\ reset_pc = "context_deleted"
    /\ cache' = [key \in CacheKeys |-> IF key = CtxKey THEN cache[key] ELSE ""]
    /\ reset_pc' = "returned"
    /\ UNCHANGED <<chatVars, call, replyVars, unitVars, session>>

NextSession ==
    \/ \E t \in Threads : SessionQueryStart(t)
    \/ \E t \in Threads : SessionQueryContext(t)
    \/ \E t \in Threads : SessionQueryReply(t)
    \/ \E t \in Threads : SessionQueryStoreContext(t)
    \/ \E t \in Threads : SessionQueryStoreReply(t)
    \/ \E t \in Threads : SessionQueryNext(t)
    \/ ResetDeleteContext
    \/ ResetDeleteQueries

InitSession == Init /\ cfg.GEMINI_API_KEY /\ cfg.GEMINI_MODEL = "m1"

SpecSession == InitSession /\ [][NextSession]_vars

(***************************************************************************)
(* classify_and_reply with its _chat calls carried out: the reply flow of  *)
(* one query waits for _chat, which makes its POSTs, and goes on with what *)
(* _chat returned or raised.  The configuration is the default one for     *)
(* retries (config.py, line 43), with one fallback model.                  *)
(***************************************************************************)
DefaultRetries ==
    [GEMINI_API_KEY |-> TRUE, GEMINI_MODEL |-> "m1", GEMINI_FALLBACK_MODELS |-> <<"m2">>,
     GEMINI_ENABLE_GOOGLE_SEARCH |-> TRUE, GEMINI_REQUEST_RETRIES |-> 2,
     queries |-> {"q1"}]

\* lines 753 and 300: _chat is called
BoundedChatCalled == reply_pc \in {"idle", "retry"} /\ ChatStart("q1")

\* _chat, lines 588-690
BoundedChatStep ==
    \/ ChatLoopExhausted("q1")
    \/ SkipReasonReadClock("q1")
    \/ ModelSkipCheck("q1")
    \/ PostTransportRetry("q1")
    \/ PostTransportFailure("q1")
    \/ PostHttpError("q1")
    \/ PostSuccess("q1")
    \/ MarkModelUnavailable("q1")

\* _chat is back in _classify_and_reply_internal or in _retry_for_alternative_link
BoundedChatBack ==
    /\ pc["q1"] = "done"
    /\ IF outcome["q1"].kind = "ChatResult"
       THEN ReplyChatReturns \/ ReplyRetryReturns
       ELSE ReplyChatRaises \/ ReplyRetryRaises

\* the frame of the finished _chat call is gone
BoundedChatGone == reply_pc \in {"sanitize", "finish", "done"} /\ ChatReturn("q1")

BoundedReplyStep == pc["q1"] = "idle" /\ (ReplySanitize \/ ReplyFinish \/ ReplyNext)

NextBounded ==
    \/ BoundedChatCalled
    \/ BoundedChatStep
    \/ BoundedChatBack
    \/ BoundedChatGone
    \/ BoundedReplyStep

InitBounded == cfg = DefaultRetries /\ InitState /\ InitUnits

SpecBounded == InitBounded /\ [][NextBounded]_vars

(***************************************************************************)
(* Two queries in _chat at the same time, with one retry of a failed POST.  *)
(***************************************************************************)
ConcurrentRetries ==
    [GEMINI_API_KEY |-> TRUE, GEMINI_MODEL |-> "m1", GEMINI_FALLBACK_MODELS |-> << >>,
     GEMINI_ENABLE_GOOGLE_SEARCH |-> FALSE, GEMINI_REQUEST_RETRIES |-> 1,
     queries |-> {"q1", "q2"}]

InitConcurrent == cfg = ConcurrentRetries /\ InitState /\ InitUnits

SpecConcurrent == InitConcurrent /\ [][Next]_vars

(***************************************************************************)
(* _mark_model_unavailable called on its own, again and again, for either  *)
(* of two models and with any status _chat can pass.                       *)
(***************************************************************************)
\* _chat, line 625: the status 'N/A' of an HTTPError without a response; a string,
\* which no comparison of _mark_model_unavailable equates with a number
STATUS_NA == -1

MarkModels == {"m1", "m2"}
MarkStatuses == {400, 403, 404, 429, 500, STATUS_NA}

\* _mark_model_unavailable(model_name, status, error_text) is called: line 438
MarkAnyCall(t) ==
    /\ call[t].op = "none"
    /\ \E model_name \in MarkModels : \E status \in MarkStatuses : \E body \in ErrorBodies(status) :
          call' = [call EXCEPT ![t] = [op |-> "mark", model |-> model_name,
                                       status |-> status, body |-> body, clock |-> now]]
    /\ UNCHANGED <<sessionVars, chatVars, replyVars, unitVars>>

NextMark ==
    \/ Tick
    \/ MarkAnyCall("t1")
    \/ MarkLocked("t1")
    \/ MarkReturn("t1")

SpecMark == InitRegistry /\ [][NextMark]_vars

(***************************************************************************)
(* The thread pool of _verify_urls_parallel.  A verification is taken by   *)
(* what it hands back (its own steps are those of _verify_working_url      *)
(* above); the threads of ThreadPoolExecutor(max_workers=n) number at most *)
(* n, each runs one submitted call at a time and takes them in the order   *)
(* of submission.                                                          *)
(***************************************************************************)
MaxBatch == 6

PoolUrls == <<"https://p1", "https://p2", "https://p3", "https://p4", "https://p5",
              "https://p6", "https://p7">>
PoolUrlLists ==
    { SubSeq(PoolUrls, 1, n) : n \in 0..MaxBatch } \cup { <<"https://p1", "https://p1">> }

\* what a _verify_working_url(url) call hands back
PoolOutcomes(url) == { Returned(url), Returned(""), [kind |-> "ValueError", url |-> ""] }

\* lines 152-165: the call, up to the comprehension of line 158 or to the submission
\* of every URL to the pool
PoolCall ==
    /\ batch_pc = "idle"
    /\ \E urls \in PoolUrlLists :
          /\ batch_urls' = urls
          /\ pending' = 1..Len(urls)
          /\ batch_pc' = IF urls = << >> THEN "done" ELSE "running"
          /\ batch_result' = IF urls = << >> THEN "returned" ELSE "none"
    /\ in_flight' = {}
    /\ completion' = << >>
    /\ batch_verified' = << >>
    /\ UNCHANGED <<sessionVars, chatVars, call, replyVars, parseVars, queryVars, botVars, helperVars, verifyVars>>

\* a _verify_working_url call begins: the next one of the comprehension (line 158), or
\* the oldest one waiting in the pool, taken by a thread that runs none (line 161)
PoolStart ==
    /\ batch_pc = "running"
    /\ pending # {}
    /\ Cardinality(in_flight) < Max(1, worker_count(batch_urls))
    /\ \E i \in pending :
          /\ \A j \in pending : i <= j
          /\ pending' = pending \ {i}
          /\ in_flight' = in_flight \cup {i}
    /\ UNCHANGED <<sessionVars, chatVars, call, replyVars, parseVars, queryVars, botVars, helperVars, verifyVars,
                   batch_pc, batch_urls, completion, batch_verified, batch_result>>

\* a _verify_working_url call ends: line 158 takes its value or lets its exception
\* through, lines 166-171 store its value, or "" for its exception
PoolFinish ==
    /\ batch_pc = "running"
    /\ \E i \in in_flight : \E out \in PoolOutcomes(batch_urls[i]) :
          /\ in_flight' = in_flight \ {i}
          /\ IF worker_count(batch_urls) <= 1 /\ out.kind # "returned"
             THEN /\ batch_result' = out.kind
                  /\ batch_pc' = "done"
                  /\ UNCHANGED <<batch_verified, completion>>
             ELSE /\ batch_verified' =
                         put(batch_verified, batch_urls[i],
                             IF out.kind = "returned" THEN out.url ELSE "")
                  /\ completion' = inserted(completion, batch_urls[i])
                  /\ UNCHANGED <<batch_pc, batch_result>>
    /\ UNCHANGED <<sessionVars, chatVars, call, replyVars, parseVars, queryVars, botVars, helperVars, verifyVars,
                   batch_urls, pending>>

\* line 158 or line 172: every future has been taken from as_completed and the pool
\* is shut down; "verified" is returned
PoolReturn ==
    /\ batch_pc = "running"
    /\ pending = {}
    /\ in_flight = {}
    /\ batch_pc' = "done"
    /\ batch_result' = "returned"
    /\ UNCHANGED <<sessionVars, chatVars, call, replyVars, parseVars, queryVars, botVars, helperVars, verifyVars,
                   batch_urls, pending, in_flight, completion, batch_verified>>

\* the caller has taken the result
PoolNext ==
    /\ batch_pc = "done"
    /\ batch_pc' = "idle"
    /\ batch_urls' = << >>
    /\ pending' = {}
    /\ in_flight' = {}
    /\ completion' = << >>
    /\ batch_verified' = << >>
    /\ batch_result' = "none"
    /\ UNCHANGED <<sessionVars, chatVars, call, replyVars, parseVars, queryVars, botVars, helperVars, verifyVars>>

NextPool ==
    \/ PoolCall
    \/ PoolStart
    \/ PoolFinish
    \/ PoolReturn
    \/ PoolNext

SpecPool == InitReply /\ [][NextPool]_vars

(***************************************************************************)
(* _sanitize_answer_links with its _verify_urls_parallel call carried out: *)
(* the verifications of the URLs of the answer end in any order.           *)
(***************************************************************************)
\* variant: the loop goes through the matches in the order in which their URLs were
\* put into verified_by_url
RECURSIVE matches_by_key_order(_, _, _)
matches_by_key_order(text, matches, keys) ==
    IF keys = << >> THEN << >>
    ELSE SelectSeq(matches,
                   LAMBDA m : normalize_url(SubSeq(text, m[1], m[2])) = Head(keys))
             \o matches_by_key_order(text, matches, Tail(keys))

\* line 238: "for match in matches"
rewrite_order(text, matches, keys) == matches

\* verified_by_url.get(normalized, ""), as links_walk reads it
lookup(verified_by_url, final) ==
    [accepted |-> { url \in DOMAIN verified_by_url : verified_by_url[url] # << >> },
     final |-> final]

\* lines 215-230: up to the _verify_urls_parallel call
OrderCall ==
    /\ unit_pc = "called"
    /\ batch_pc = "idle"
    /\ IF unit_in.answer = << >> \/ url_matches(unit_in.answer, 1) = << >>
       THEN /\ unit_out' = [sanitized |-> unit_in.answer, removed_unverified |-> FALSE,
                            failed_urls |-> << >>]
            /\ unit_pc' = "done"
            /\ UNCHANGED <<batch_pc, batch_urls, pending>>
       ELSE /\ batch_urls' = urls_of(unit_in.answer)
            /\ pending' = 1..Len(urls_of(unit_in.answer))
            /\ batch_pc' = "running"
            /\ UNCHANGED <<unit_pc, unit_out>>
    /\ UNCHANGED <<sessionVars, chatVars, call, replyVars, parseVars, queryVars, botVars, verifyVars,
                   unit_in, in_flight, completion, batch_verified, batch_result>>

\* a verification ends with what the web answers for its URL; lines 166-171 (or line
\* 158) put it into "verified"
OrderFinish ==
    /\ batch_pc = "running"
    /\ \E i \in in_flight :
          /\ in_flight' = in_flight \ {i}
          /\ batch_verified' = put(batch_verified, batch_urls[i],
                                   verified_form(unit_in.web, batch_urls[i]))
          /\ completion' = inserted(completion, batch_urls[i])
    /\ UNCHANGED <<sessionVars, chatVars, call, replyVars, parseVars, queryVars, botVars, verifyVars,
                   helperVars, batch_pc, batch_urls, pending, batch_result>>

\* _verify_urls_parallel has returned: lines 232-266
OrderRewrite ==
    /\ unit_pc = "called"
    /\ batch_pc = "running"
    /\ pending = {}
    /\ in_flight = {}
    /\ LET text == unit_in.answer
           matches == rewrite_order(text, url_matches(text, 1), completion)
           walked == links_walk(text, lookup(batch_verified, unit_in.web.final),
                                matches, 1, NoLinks)
       IN  unit_out' = [sanitized |-> tidy(walked.out_parts),
                        removed_unverified |-> walked.removed_unverified,
                        failed_urls |-> walked.failed_urls]
    /\ unit_pc' = "done"
    /\ batch_pc' = "idle"
    /\ batch_urls' = << >>
    /\ batch_verified' = << >>
    /\ UNCHANGED <<sessionVars, chatVars, call, replyVars, parseVars, queryVars, botVars, verifyVars,
                   unit_in, pending, in_flight, completion, batch_result>>

NextOrder ==
    \/ OrderCall
    \/ PoolStart
    \/ OrderFinish
    \/ OrderRewrite

SpecOrder == InitSanitize /\ [][NextOrder]_vars

(***************************************************************************)
(* The URLs handed to _verify_working_url while one upstream response is   *)
(* handled: by _extract_grounding_sources (inside _chat), then by          *)
(* _sanitize_answer_links.                                                 *)
(***************************************************************************)
ProbeChunkLists ==
    ChunkLists \cup
        { << [uri |-> "https://u1", title |-> << >>], [uri |-> "https://u1", title |-> << >>],
             [uri |-> "https://u2", title |-> << >>] >> }

NoProbes == [seen_input_urls |-> {}, seen_urls |-> {}, validation_cache |-> << >>,
             probes |-> << >>]

\* _extract_grounding_sources, lines 487-511, with _verify_working_url_cached, lines
\* 143-149: the URLs passed to _verify_working_url, in order
RECURSIVE grounding_probes(_, _, _)
grounding_probes(chunks, w, acc) ==
    IF chunks = << >> \/ Cardinality(acc.seen_urls) >= MAX_VERIFIED_GROUNDING_SOURCES
    THEN acc.probes
    ELSE LET url == Head(chunks).uri
             cached == url \in DOMAIN acc.validation_cache
             resolved_url == IF cached THEN acc.validation_cache[url]
                             ELSE verify_working_url(w, url)
         IN  IF url = "" \/ url \in acc.seen_input_urls
             THEN grounding_probes(Tail(chunks), w, acc)
             ELSE grounding_probes(Tail(chunks), w,
                      [seen_input_urls |-> acc.seen_input_urls \cup {url},
                       seen_urls |-> acc.seen_urls \cup ({resolved_url} \ {""}),
                       validation_cache |-> put(acc.validation_cache, url, resolved_url),
                       probes |-> IF cached THEN acc.probes ELSE Append(acc.probes, url)])

\* _chat, line 614: _extract_answer_text calls _extract_grounding_sources
ProbeExtract ==
    /\ unit_pc = "called"
    /\ unit_out' = [sources |-> extract_grounding_sources(unit_in.chunks, unit_in.web),
                    probes |-> grounding_probes(unit_in.chunks, unit_in.web, NoProbes)]
    /\ unit_pc' = "extracted"
    /\ UNCHANGED <<sessionVars, chatVars, call, replyVars, parseVars, queryVars, botVars, batchVars, verifyVars,
                   unit_in>>

\* _classify_and_reply_internal, line 770: _sanitize_answer_links hands the URLs of
\* the answer to _verify_urls_parallel (lines 222-230)
ProbeSanitize ==
    /\ unit_pc = "extracted"
    /\ unit_out' = [unit_out EXCEPT !.probes = @ \o extract_urls(unit_in.answer)]
    /\ unit_pc' = "done"
    /\ UNCHANGED <<sessionVars, chatVars, call, replyVars, parseVars, queryVars, botVars, batchVars, verifyVars,
                   unit_in>>

NextProbes == ProbeExtract \/ ProbeSanitize

InitProbes ==
    /\ InitHelper
    /\ unit_in \in [answer : ChatTexts, chunks : ProbeChunkLists, web : Webs]

SpecProbes == InitProbes /\ [][NextProbes]_vars

(***************************************************************************)
(* bot/telegram_bot.py: _run_query for the messages of two chats.  Each    *)
(* update is handled by a coroutine of the one event loop; a step runs a   *)
(* coroutine from one await to the next.                                   *)
(***************************************************************************)
MSG_PLEASE_WAIT == "Please wait, I am still replying to your previous message."
MSG_TOO_LONG == "Server is taking too long right now. Please try again in a few seconds."
MSG_INVALID_RESPONSE == "I got an invalid response from the server. Please try again."

\* the updates of a chat that are between the acquisition and the release of its lock
Processing(c) ==
    { u \in Updates : run_query[u].chat = c
                      /\ run_query[u].pc \in {"backend", "fallback", "finally"} }

\* variant: the lock is not looked at
locked_ignored(lock) == FALSE

\* line 207: lock.locked()
locked(lock) == lock = "locked"

\* lines 200-215: the lock of the chat is fetched, made if there is none (_get_lock,
\* lines 123-128); if it is held the coroutine goes to send the 'please wait' reply, or
\* else it takes the lock, which is free, and starts the backend request
BotRunQuery(u) ==
    /\ run_query[u].pc = "idle"
    /\ \E c \in BotChats :
          LET lock == IF chat_locks[c] = "none" THEN "unlocked" ELSE chat_locks[c]
          IN  IF locked(lock)
              THEN /\ run_query' = [run_query EXCEPT ![u] =
                          [NoUpdate EXCEPT !.pc = "wait_reply", !.chat = c,
                                           !.in_progress = Processing(c) # {}]]
                   /\ chat_locks' = [chat_locks EXCEPT ![c] = lock]
              ELSE /\ run_query' = [run_query EXCEPT ![u] =
                          [NoUpdate EXCEPT !.pc = "backend", !.chat = c, !.backend = 1,
                                           !.in_progress = Processing(c) # {}]]
                   /\ chat_locks' = [chat_locks EXCEPT ![c] = "locked"]
    /\ UNCHANGED <<sessionVars, chatVars, call, replyVars, parseVars, queryVars,
                   batchVars, verifyVars, helperVars>>

\* lines 208-212
BotPleaseWait(u) ==
    /\ run_query[u].pc = "wait_reply"
    /\ run_query' = [run_query EXCEPT ![u].pc = "done", ![u].sent = MSG_PLEASE_WAIT]
    /\ UNCHANGED <<sessionVars, chatVars, call, replyVars, parseVars, queryVars,
                   batchVars, verifyVars, helperVars, chat_locks>>

\* lines 217-226: the backend answers; lines 228-229 and 241-243: the request or the
\* decoding fails; any other exception goes to the finally block and on to the caller
BotBackendDone(u) ==
    /\ run_query[u].pc = "backend"
    /\ \E result \in {"answer", "RequestException", "ValueError", "other"} :
          run_query' = [run_query EXCEPT
               ![u].pc = IF result = "RequestException" THEN "fallback" ELSE "finally",
               ![u].engine = IF result = "RequestException" THEN 1 ELSE 0,
               ![u].answer = CASE result = "answer" -> "answer"
                               [] result = "ValueError" -> MSG_INVALID_RESPONSE
                               [] result = "other" -> "raised"
                               [] OTHER -> ""]
    /\ UNCHANGED <<sessionVars, chatVars, call, replyVars, parseVars, queryVars,
                   batchVars, verifyVars, helperVars, chat_locks>>

\* lines 230-240: classify_and_reply on a thread, answering or raising
BotFallbackDone(u) ==
    /\ run_query[u].pc = "fallback"
    /\ \E text \in {"engine answer", MSG_TOO_LONG} :
          run_query' = [run_query EXCEPT ![u].pc = "finally", ![u].answer = text]
    /\ UNCHANGED <<sessionVars, chatVars, call, replyVars, parseVars, queryVars,
                   batchVars, verifyVars, helperVars, chat_locks>>

\* lines 244-251: the typing task has ended, the 'async with' block is left and the
\* lock is released; the answer is sent next unless an exception is on its way out
BotRelease(u) ==
    /\ run_query[u].pc = "finally"
    /\ chat_locks' = [chat_locks EXCEPT ![run_query[u].chat] = "unlocked"]
    /\ run_query' = [run_query EXCEPT
            ![u].pc = IF run_query[u].answer = "raised" THEN "done" ELSE "reply"]
    /\ UNCHANGED <<sessionVars, chatVars, call, replyVars, parseVars, queryVars,
                   batchVars, verifyVars, helperVars>>

\* line 253
BotReply(u) ==
    /\ run_query[u].pc = "reply"
    /\ run_query' = [run_query EXCEPT ![u].pc = "done", ![u].sent = run_query[u].answer]
    /\ UNCHANGED <<sessionVars, chatVars, call, replyVars, parseVars, queryVars,
                   batchVars, verifyVars, helperVars, chat_locks>>

\* the coroutine has ended
BotEnd(u) ==
    /\ run_query[u].pc = "done"
    /\ run_query' = [run_query EXCEPT ![u] = NoUpdate]
    /\ UNCHANGED <<sessionVars, chatVars, call, replyVars, parseVars, queryVars,
                   batchVars, verifyVars, helperVars, chat_locks>>

NextBot ==
    \/ \E u \in Updates : BotRunQuery(u)
    \/ \E u \in Updates : BotPleaseWait(u)
    \/ \E u \in Updates : BotBackendDone(u)
    \/ \E u \in Updates : BotFallbackDone(u)
    \/ \E u \in Updates : BotRelease(u)
    \/ \E u \in Updates : BotReply(u)
    \/ \E u \in Updates : BotEnd(u)

InitTelegram == cfg = DefaultRetries /\ InitState /\ InitUnits

SpecBot == InitTelegram /\ [][NextBot]_vars

(***************************************************************************)
(* Properties.                                                             *)
(***************************************************************************)
Candidates == { model_attempts[i] : i \in 1..Len(model_attempts) }
Idx(model_name) == CHOOSE i \in 1..Len(model_attempts) : model_attempts[i] = model_name
IsException(o) == o.kind \in {"HTTPError", "RequestException", "RuntimeError"}

\* clock values at which a registry entry is looked at: now, later, and around
\* every stored cooldown end
ClockSamples ==
    {now, now + 300, now + 36000, now + 720000}
        \cup { MODEL_SKIP_UNTIL[m] : m \in ModelNames }
        \cup { MODEL_SKIP_UNTIL[m] + 1 : m \in ModelNames }

\* C1: every http(s) URL of the answer _classify_and_reply_internal returns is a
\* non-empty result _verify_working_url gave during that query.
C1_OnlyVerifiedUrlsReachUser ==
    reply.kind = "returned" =>
        \A u \in Range(extract_urls(reply.answer)) : u \in verified_urls

\* C2: once _mark_model_unavailable(m, 404, body) has completed, m stays in the
\* permanent-unavailable set, _model_skip_reason(m) is non-empty at every clock
\* value, and no _chat call that started afterwards is sending a request to m.
C2_PermanentNeverSelected ==
    \A m \in ever_404 :
        /\ m \in MODEL_PERMANENTLY_UNAVAILABLE
        /\ \A t \in ClockSamples :
              model_skip_reason(MODEL_PERMANENTLY_UNAVAILABLE, MODEL_SKIP_UNTIL, m, t) # ""
        /\ \A p \in Queries :
              (pc[p] \in {"post", "mark"} /\ m \in perm_at_start[p]) => cur_model(p) # m

\* a call that started after a 404 mark of m1 is posting to a later model, after time
\* has passed
C2_Witness ==
    \E p \in Queries :
        /\ pc[p] = "post"
        /\ "m1" \in perm_at_start[p]
        /\ "m1" \in skipped[p]
        /\ now > 0

\* C3: whatever the interleaving of concurrent _mark_model_unavailable(m, 403 or
\* 429, body) calls, each with the clock value it read before taking the lock, the
\* stored cooldown end of m after a call is the larger of its previous value and
\* that call's clock value + cooldown, and no step decreases a stored cooldown end.
C3_CooldownOnlyExtended ==
    [][ /\ \A m \in ModelNames : MODEL_SKIP_UNTIL'[m] >= MODEL_SKIP_UNTIL[m]
        /\ \A t \in Threads :
              ( /\ call[t].op = "mark"
                /\ call'[t].op = "returned"
                /\ call[t].status \in {403, 429} ) =>
                  MODEL_SKIP_UNTIL'[call[t].model] =
                      Max(MODEL_SKIP_UNTIL[call[t].model],
                          cooldown_until(call[t].clock, call[t].body))
      ]_vars

\* two calls that read different clock values have completed; the one that read the
\* later value computed the earlier end, and the longer cooldown is the one stored
C3_Witness ==
    \E t1, t2 \in Threads :
        /\ call[t1].op = "returned" /\ call[t1].status = 429
        /\ call[t2].op = "returned" /\ call[t2].status = 429
        /\ call[t1].clock < call[t2].clock
        /\ cooldown_until(call[t2].clock, call[t2].body)
               < cooldown_until(call[t1].clock, call[t1].body)
        /\ MODEL_SKIP_UNTIL[RegistryModel] = cooldown_until(call[t1].clock, call[t1].body)

\* the hint of an error body: the number of its first 'please retry in Ns' phrase,
\* in tenths of a second; 0 when it has none
HintOf(body) ==
    LET at == { i \in 1..Len(body) : body[i].k = "retry" }
    IN  IF at = {} THEN 0
        ELSE body[CHOOSE i \in at : \A j \in at : i <= j].n

\* the floor of an error body, in tenths of a second
FloorOf(body) ==
    IF \E i \in 1..Len(body) : body[i] = [k |-> "limit0", n |-> 0] THEN 36000 ELSE 300

\* C4: a _mark_model_unavailable call with status 403 or 429 that changes the
\* cooldown end of its model sets it to clock + max(hint, floor), hint being the
\* number of the 'please retry in Ns' phrase of the body (0 when absent) and floor
\* 30 s, or 3600 s when the body holds 'limit: 0'; a 429 with hint 12.5 s and no
\* zero-quota marker gives clock + 30 s.  A call whose end so computed is not later
\* than the stored one changes nothing.
C4_CooldownIsMaxOfHintAndFloor ==
    [][ \A t \in Threads :
          ( /\ call[t].op = "mark"
            /\ call'[t].op = "returned"
            /\ call[t].status \in {403, 429} ) =>
              LET m == call[t].model
                  end == call[t].clock + Max(HintOf(call[t].body), FloorOf(call[t].body))
              IN  /\ MODEL_SKIP_UNTIL[m] < end => MODEL_SKIP_UNTIL'[m] = end
                  /\ MODEL_SKIP_UNTIL[m] >= end => MODEL_SKIP_UNTIL'[m] = MODEL_SKIP_UNTIL[m]
                  /\ ( /\ call[t].status = 429
                       /\ call[t].body = << [k |-> "retry", n |-> 125] >>
                       /\ MODEL_SKIP_UNTIL[m] < call[t].clock ) =>
                         MODEL_SKIP_UNTIL'[m] = call[t].clock + 300
      ]_vars

\* a 429 with the hint 12.5 s has set the cooldown end to its clock value + 30 s
C4_Witness ==
    \E t \in Threads :
        /\ call[t].op = "returned"
        /\ call[t].status = 429
        /\ call[t].body = << [k |-> "retry", n |-> 125] >>
        /\ call[t].clock > 0
        /\ MODEL_SKIP_UNTIL[RegistryModel] = call[t].clock + 300

\* C5: _model_skip_reason(m) is non-empty exactly when m is in the permanent set or
\* m's cooldown end is later than the clock value read; when it is empty _chat
\* attempts the model, otherwise it skips it; the test clears no registry entry.
C5_SkipExactlyWhileUnavailable ==
    [][ \A p \in Queries :
          (pc[p] = "skip_check" /\ pc'[p] # "skip_check") =>
              LET m == cur_model(p)
                  unavailable == \/ m \in MODEL_PERMANENTLY_UNAVAILABLE
                                 \/ MODEL_SKIP_UNTIL[m] > clock_read[p]
              IN  /\ unavailable =>
                        /\ pc'[p] = "loop"
                        /\ model_idx'[p] = model_idx[p] + 1
                        /\ skipped'[p] = skipped[p] \cup {m}
                  /\ ~unavailable =>
                        /\ pc'[p] = "post"
                        /\ model_idx'[p] = model_idx[p]
                        /\ tool_idx'[p] = 1
                        /\ skipped'[p] = skipped[p]
                  /\ MODEL_SKIP_UNTIL' = MODEL_SKIP_UNTIL
                  /\ MODEL_PERMANENTLY_UNAVAILABLE' = MODEL_PERMANENTLY_UNAVAILABLE
      ]_vars

\* a model is attempted at the very clock value of its cooldown end, its entry still
\* in the map
C5_Witness ==
    \E p \in Queries :
        /\ pc[p] = "post"
        /\ cur_model(p) \notin MODEL_PERMANENTLY_UNAVAILABLE
        /\ MODEL_SKIP_UNTIL[cur_model(p)] = now
        /\ now > 0

\* whether the registry holds the record of an error of this status for the model
Recorded(model_name, status) ==
    IF status = 404 THEN model_name \in MODEL_PERMANENTLY_UNAVAILABLE
    ELSE MODEL_SKIP_UNTIL[model_name] > 0

\* C6: after an attempt on model m returned 429, 403 or 404 while another candidate
\* remained, the error is recorded in the registry, the call makes no further
\* attempt on m, every candidate between m and the model being attempted was
\* skipped, and a result returned carries the name of the model that succeeded.
C6_FailoverToNextModel ==
    \A p \in Queries :
        /\ ( /\ failover[p].result = "HTTPError"
             /\ failover[p].status \in {429, 403, 404} ) =>
               /\ Recorded(failover[p].model, failover[p].status)
               /\ model_idx[p] > Idx(failover[p].model)
               /\ pc[p] \in {"post", "mark"} =>
                     /\ cur_model(p) \notin skipped[p]
                     /\ \A j \in (Idx(failover[p].model) + 1)..(model_idx[p] - 1) :
                           model_attempts[j] \in skipped[p]
        /\ ( /\ last_try[p].result = "HTTPError"
             /\ last_try[p].status \in {429, 403, 404}
             /\ Idx(last_try[p].model) < Len(model_attempts)
             /\ pc[p] # "mark" ) =>
               /\ failover[p] = last_try[p]
               /\ pc[p] = "post" => cur_model(p) # last_try[p].model
        /\ outcome[p].kind = "ChatResult" =>
               /\ outcome[p].model = cur_model(p)
               /\ outcome[p].model = last_try[p].model
               /\ outcome[p].model \notin skipped[p]

\* scenario C: the primary returned 429, the first fallback succeeded
C6_Witness ==
    \E p \in Queries :
        /\ failover[p].model = "m1"
        /\ failover[p].status = 429
        /\ failover[p].tool = "google_search"
        /\ outcome[p].kind = "ChatResult"
        /\ outcome[p].model = "m2"
        /\ MODEL_SKIP_UNTIL["m1"] = now + 300

\* C7: when the last attempt of a _chat call failed with an HTTP error response, the
\* call raises that HTTP error.
C7_LastHttpErrorPropagates ==
    \A p \in Queries :
        (pc[p] = "done" /\ last_try[p].result = "HTTPError") =>
            outcome[p] = HTTPError(last_try[p].status)

\* whether the amended C8 has _chat raise the HTTP error of this attempt
RaisesHttpError(try) ==
    \/ try.status \notin {400, 403, 404, 429}
    \/ /\ Idx(try.model) = Len(model_attempts)
       /\ (try.status = 400 /\ try.tool # "none") =>
              try.tool = tool_attempts[Len(tool_attempts)]

\* C8 as stated: an HTTP error is raised only when no candidate model that the
\* registry does not skip and no tool configuration is left untried.
C8_RaisedOnlyWhenExhausted ==
    \A p \in Queries :
        (pc[p] = "done" /\ outcome[p].kind = "HTTPError") =>
            /\ is_last_tool(p)
            /\ \A j \in (model_idx[p] + 1)..Len(model_attempts) :
                  model_skip_reason(MODEL_PERMANENTLY_UNAVAILABLE, MODEL_SKIP_UNTIL,
                                    model_attempts[j], now) # ""

\* C8, amended: an HTTP error is raised to the caller exactly when its status is
\* none of 400, 403, 404, 429, or the failing model is the last of the candidate
\* list (for a 400 under a grounding-tool configuration: and the tool configuration
\* is the last one); in every other case the call goes on.
C8_RaisedByStatusAndPosition ==
    \A p \in Queries :
        /\ outcome[p].kind = "HTTPError" =>
               /\ pc[p] = "done"
               /\ last_try[p].result = "HTTPError"
        /\ (last_try[p].result = "HTTPError" /\ pc[p] # "mark") =>
               /\ RaisesHttpError(last_try[p]) <=>
                      (pc[p] = "done" /\ outcome[p] = HTTPError(last_try[p].status))
               /\ ~RaisesHttpError(last_try[p]) =>
                      /\ Recorded(last_try[p].model, last_try[p].status)
                            \/ last_try[p].status = 400
                      /\ \/ failover[p] = last_try[p]
                         \/ /\ last_try[p].status = 400
                            /\ tool_idx[p] > 1
                            /\ tool_attempts[tool_idx[p] - 1] = last_try[p].tool
                            /\ cur_model(p) = last_try[p].model

\* a 500 of the first model is raised although the next model is not skipped
C8_Witness ==
    \E p \in Queries :
        /\ pc[p] = "done"
        /\ outcome[p] = HTTPError(500)
        /\ model_idx[p] = 1
        /\ Len(model_attempts) = 3
        /\ model_skip_reason(MODEL_PERMANENTLY_UNAVAILABLE, MODEL_SKIP_UNTIL,
                             model_attempts[2], now) = ""

C10_NothingAttemptedIsAllUnavailable ==
    \A p \in Queries :
        (pc[p] = "done" /\ last_try[p] = NoTry /\ skipped[p] = Candidates) =>
            outcome[p] = RuntimeError(MSG_ALL_UNAVAILABLE)

\* C10, amended: with the API key configured, a _chat call that skipped every
\* candidate (or has none) has sent no request and raises the 'all models
\* unavailable' error, which main.query maps to LLM_MODELS_UNAVAILABLE; that error,
\* and that status tag, arise in no call that attempted a model.
C10_AllUnavailableIffNothingAttempted ==
    \A p \in Queries :
        pc[p] = "done" =>
            /\ ( /\ cfg.GEMINI_API_KEY
                 /\ skipped[p] = Candidates ) =>
                   /\ last_try[p] = NoTry
                   /\ attempt[p] = 0
                   /\ outcome[p] = RuntimeError(MSG_ALL_UNAVAILABLE)
                   /\ query_failure(outcome[p]).status = "LLM_MODELS_UNAVAILABLE"
            /\ ( /\ IsException(outcome[p])
                 /\ \/ query_failure(outcome[p]).status = "LLM_MODELS_UNAVAILABLE"
                    \/ outcome[p] = RuntimeError(MSG_ALL_UNAVAILABLE) ) =>
                   /\ last_try[p] = NoTry
                   /\ attempt[p] = 0
                   /\ skipped[p] = Candidates
                   /\ outcome[p].message = MSG_ALL_UNAVAILABLE

\* every one of three candidates was skipped, one of them for a cooldown
C10_Witness ==
    \E p \in Queries :
        /\ pc[p] = "done"
        /\ outcome[p] = RuntimeError(MSG_ALL_UNAVAILABLE)
        /\ skipped[p] = {"m1", "m2", "m3"}
        /\ \E m \in skipped[p] : m \notin MODEL_PERMANENTLY_UNAVAILABLE

(***************************************************************************)
(* _parse_mode_answer.                                                     *)
(***************************************************************************)
\* what json.loads gave for the text _parse_mode_answer handed to it
StrictData == json_loads(json_candidate(parse_cleaned))
StrictObject == StrictData.ok /\ StrictData.val.t = "obj"
StrictAnswer == strip(py_str(dict_get(StrictData.val, "answer", JStr(<< >>))))

\* the mode the text names: the object's mode on the strict path, the scanned mode
\* field on the scanner path, none on the raw path
GivenMode ==
    IF StrictObject THEN py_str(dict_get(StrictData.val, "mode", JStr(<< >>)))
    ELSE IF parsed.path = "scanner" THEN extract_object_like_field(parse_cleaned, "mode").value
    ELSE << >>

\* C12: _parse_mode_answer fails only with its own "no usable answer" error, and only
\* when strict decoding gave an object whose answer is empty or the cleaned text is
\* empty; for every other input (text that decodes to a number, a string, an array
\* or null included) it returns, and returns the whole cleaned text as official_info
\* when nothing structured is recoverable.
C12_FailsOnlyWithNoUsableAnswer ==
    parse_pc = "done" =>
        /\ parsed.kind \in {"returned", "RuntimeError"}
        /\ parsed.kind = "RuntimeError" =>
               /\ parsed.message \in {MSG_EMPTY_ANSWER, MSG_INVALID_JSON}
               /\ \/ StrictObject /\ StrictAnswer = << >>
                  \/ strip(parse_cleaned) = << >>
        /\ (parsed.kind = "returned" /\ parsed.path = "raw") =>
               parsed.mode = "official_info" /\ parsed.answer = strip(parse_cleaned)

\* C13: whenever _parse_mode_answer returns, the answer is non-empty and the mode is
\* smalltalk or official_info; a missing or unrecognized mode gives official_info
\* on the strict, the scanner and the raw path.
C13_ReturnsAnswerAndValidMode ==
    (parse_pc = "done" /\ parsed.kind = "returned") =>
        /\ parsed.answer # << >>
        /\ strip(parsed.answer) = parsed.answer
        /\ parsed.mode \in VALID_QUERY_MODES
        /\ parsed.path \in {"strict", "scanner", "raw"}
        /\ lower_text(strip(GivenMode)) \notin {<<"smalltalk">>, <<"official_info">>} =>
               parsed.mode = "official_info"
        /\ lower_text(strip(GivenMode)) = <<"smalltalk">> => parsed.mode = "smalltalk"

\* an unrecognized mode came back as official_info from the scanner path
C13_Witness ==
    /\ parse_pc = "done"
    /\ parsed.kind = "returned"
    /\ parsed.path = "scanner"
    /\ GivenMode = <<"chat">>
    /\ parsed.mode = "official_info"

\* the quoted value that follows the first answer key of the text, its escapes
\* decoded: backslash-n a newline, backslash-t a tab, a backslash before any other
\* character that character
RECURSIVE DecodeQuoted(_, _, _, _)
DecodeQuoted(text, i, quote, out) ==
    IF i > Len(text) THEN FieldNone
    ELSE IF text[i] = quote THEN FieldValue(out)
    ELSE IF text[i] = BS /\ i < Len(text)
    THEN DecodeQuoted(text, i + 2, quote, Append(out, json_escape(text[i + 1])))
    ELSE DecodeQuoted(text, i + 1, quote, Append(out, text[i]))

QuotedAnswer ==
    LET keys == { i \in 1..Len(parse_cleaned) - 2 :
                    /\ parse_cleaned[i] \in {DQ, SQ}
                    /\ parse_cleaned[i + 1] = "answer"
                    /\ parse_cleaned[i + 2] = parse_cleaned[i] }
        key == CHOOSE i \in keys : \A j \in keys : i <= j
        colon == find(parse_cleaned, <<COLON>>, key + 3)
        value_start == skip_ws(parse_cleaned, colon + 1)
    IN  IF keys = {} \/ colon = 0 \/ value_start > Len(parse_cleaned) THEN FieldNone
        ELSE IF parse_cleaned[value_start] \notin {DQ, SQ} THEN FieldNone
        ELSE DecodeQuoted(parse_cleaned, value_start + 1, parse_cleaned[value_start], << >>)

\* C14: when strict decoding fails and the text holds an answer key followed by a
\* quoted value, _parse_mode_answer returns that value with its escapes decoded;
\* when strict decoding gives an object with a non-empty answer, it returns the
\* strictly decoded answer.
C14_ScannerDecodesQuotedAnswer ==
    parse_pc = "done" =>
        /\ (~StrictData.ok /\ QuotedAnswer.found /\ strip(QuotedAnswer.value) # << >>) =>
               parsed.kind = "returned" /\ parsed.answer = strip(QuotedAnswer.value)
        /\ (StrictObject /\ StrictAnswer # << >>) =>
               parsed.kind = "returned" /\ parsed.answer = StrictAnswer

(***************************************************************************)
(* /query and the engine.                                                  *)
(***************************************************************************)
FailureAnswers ==
    { [kind |-> "answer", answer |-> <<Word(m.reply)>>, status |-> m.status] :
      m \in { [reply |-> "AI quota is currently exhausted. Please try again shortly.",
               status |-> "LLM_QUOTA_EXCEEDED"],
              [reply |-> "AI service is unavailable right now. Please try again.",
               status |-> "LLM_HTTP_ERROR"],
              [reply |-> "AI service is taking too long right now. Please try again.",
               status |-> "LLM_TIMEOUT"],
              [reply |-> "All configured AI models are temporarily unavailable. Please try again later.",
               status |-> "LLM_MODELS_UNAVAILABLE"] } }

\* C11: whatever makes classify_and_reply fail (an HTTP error of any status, a
\* transport error, blank or unusable output, all models unavailable, any other
\* exception raised inside the engine), /query answers {answer: m} with one of the
\* fixed messages and logs its status tag; it never fails with an internal error.
C11_EveryFailureGetsFixedAnswer ==
    (query_pc = "done" /\ raised.kind # "none") =>
        /\ response.kind = "answer"
        /\ response \in FailureAnswers

\* the upstream answer is empty after trimming: every part of the response is blank,
\* or its text decodes to an object whose answer is missing or a blank string
UpstreamText == cleaned_text(extract_answer_text(upstream.parts).message)
UpstreamObject == json_loads(json_candidate(UpstreamText))
UpstreamBlank ==
    /\ upstream.kind = "parts"
    /\ upstream.parts # << >>
    /\ \/ \A i \in 1..Len(upstream.parts) : strip(upstream.parts[i]) = << >>
       \/ /\ UpstreamObject.ok
          /\ UpstreamObject.val.t = "obj"
          /\ LET value == dict_get(UpstreamObject.val, "answer", JStr(<< >>))
             IN  value.t = "str" /\ strip(value.s) = << >>

\* C15: when the upstream answer is empty after trimming, classify_and_reply raises a
\* blank-answer error and _sanitize_answer_links is never invoked: no link of an
\* answer is probed.
C15_BlankAnswerRaisesBeforeSanitize ==
    (query_pc # "idle" /\ UpstreamBlank) =>
        /\ query_pc \in {"parse", "except", "done"}
        /\ reply_pc = "idle"
        /\ answer = << >>
        /\ failed_urls = << >>
        /\ query_pc \in {"except", "done"} =>
               /\ raised.kind = "RuntimeError"
               /\ raised.message \in {MSG_BLANK_TEXT, MSG_EMPTY_ANSWER}

\* an object with an empty answer has made classify_and_reply raise
C15_Witness ==
    /\ query_pc = "done"
    /\ UpstreamBlank
    /\ raised = RuntimeError(MSG_EMPTY_ANSWER)
    /\ reply_pc = "idle"

(***************************************************************************)
(* Link verification.                                                      *)
(***************************************************************************)
GoodGet(probe) ==
    probe.method \in {"get", "confirm"} /\ ~probe.raises /\ probe.status < 400

\* C16: _verify_working_url returns a non-empty URL only if a GET of that call was
\* answered with a status below 400; a HEAD below 400 alone never suffices; when the
\* confirming GET raises or is answered with 400 or more the result is empty; an
\* exception of the network never leaves the function.
C16_VerifiedOnlyAfterGoodGet ==
    verify_pc = "returned" =>
        /\ (\E i \in 1..Len(probes) : probes[i].raises) => verify_result.kind = "returned"
        /\ verify_result.url # "" =>
               /\ verify_result.kind = "returned"
               /\ \E i \in 1..Len(probes) : GoodGet(probes[i])
        /\ (\E i \in 1..Len(probes) :
               probes[i].method = "confirm" /\ ~GoodGet(probes[i])) =>
               verify_result = Returned("")

\* the GET raised, the HEAD was answered with 200 and the confirming GET was refused
C16_Witness ==
    /\ verify_pc = "returned"
    /\ Len(probes) = 3
    /\ probes[1].raises
    /\ probes[2].status = 200
    /\ probes[3].status = 404
    /\ verify_result = Returned("")

\* the URLs of the call whose verification has raised
BatchRaised == { u \in Range(batch_urls) : urlparse_raises(u) }

\* C17: _verify_urls_parallel returns a map whose keys are exactly the URLs it was
\* given; an exception while one URL is verified gives "" for that URL and never
\* aborts the call, for a batch of one URL (verified inline) as for the pool.
C17_BatchNeverAborts ==
    batch_pc = "done" =>
        /\ batch_result = "returned"
        /\ DOMAIN batch_verified = Range(batch_urls)
        /\ \A u \in BatchRaised : batch_verified[u] = ""

(***************************************************************************)
(* Grounding sources.                                                      *)
(***************************************************************************)
\* the chunks _verify_working_url resolves to this URL
ChunksGiving(url) ==
    { k \in 1..Len(unit_in.chunks) :
        unit_in.chunks[k].uri # "" /\ unit_in.web[unit_in.chunks[k].uri] = url }
FirstChunkGiving(url) == CHOOSE k \in ChunksGiving(url) : \A j \in ChunksGiving(url) : k <= j

\* C18: _extract_grounding_sources returns at most 8 sources, each with a non-empty
\* verified URL, the URLs pairwise distinct and in the order of their first
\* occurrence; once 8 are accepted no later chunk is verified.
C18_AtMostEightDistinctInOrder ==
    unit_pc = "done" =>
        LET srcs == unit_out.sources
        IN  /\ Len(srcs) <= MAX_VERIFIED_GROUNDING_SOURCES
            /\ \A i \in 1..Len(srcs) : srcs[i].url # "" /\ ChunksGiving(srcs[i].url) # {}
            /\ \A i, j \in 1..Len(srcs) :
                   i < j => /\ srcs[i].url # srcs[j].url
                            /\ FirstChunkGiving(srcs[i].url) < FirstChunkGiving(srcs[j].url)
            /\ Len(srcs) >= MAX_VERIFIED_GROUNDING_SOURCES =>
                   \A k \in 1..Len(unit_in.chunks) :
                       k > FirstChunkGiving(srcs[MAX_VERIFIED_GROUNDING_SOURCES].url) =>
                           \/ unit_in.chunks[k].uri \notin unit_out.seen_input_urls
                           \/ \E j \in 1..(k - 1) :
                                 unit_in.chunks[j].uri = unit_in.chunks[k].uri

\* eight sources were accepted and a chunk with a URI not met before was left alone
C18_Witness ==
    /\ unit_pc = "done"
    /\ Len(unit_out.sources) = MAX_VERIFIED_GROUNDING_SOURCES
    /\ \E k \in 1..Len(unit_in.chunks) :
          /\ unit_in.chunks[k].uri # ""
          /\ unit_in.web[unit_in.chunks[k].uri] # ""
          /\ unit_in.chunks[k].uri \notin unit_out.seen_input_urls

\* the host a client connects to: what follows the last "@" of the netloc, up to
\* the port
after_last(host, mark) ==
    LET at == { i \in 1..Len(host) : host[i] = mark }
    IN  IF at = {} THEN host
        ELSE SubSeq(host, (CHOOSE i \in at : \A j \in at : i >= j) + 1, Len(host))
hostname(url) == before_first(after_last(lower_host(netloc_of(url)), "@"), ":")

\* C19: in the allow-list revision every source _extract_grounding_sources returns
\* has an http(s) URL whose host is aktu.ac.in, akgec.ac.in or a subdomain of one of
\* them; look-alike hosts and hosts hidden behind userinfo or port syntax are
\* rejected.
C19_SourcesOnAllowedHosts ==
    unit_pc = "done" =>
        \A i \in 1..Len(unit_out.sources) :
            LET url == unit_out.sources[i].url
            IN  /\ scheme_of(url) \in {"http", "https"}
                /\ \E d \in 1..Len(ALLOWED_GROUNDING_DOMAINS) :
                      \/ hostname(url) = <<ALLOWED_GROUNDING_DOMAINS[d]>>
                      \/ endswith(hostname(url), <<".", ALLOWED_GROUNDING_DOMAINS[d]>>)

\* C20: for an answer with N distinct URLs of which verification accepts the subset
\* S, the text _sanitize_answer_links returns contains exactly the verified forms of
\* the URLs in S and no other URL, failed_urls is the list of the normalized URLs not
\* in S, each once and in the order of their first occurrence, and
\* removed_unverified is true exactly when failed_urls is not empty.
C20_OutputHasExactlyTheVerifiedLinks ==
    unit_pc = "done" =>
        LET urls == urls_of(unit_in.answer)
            S == unit_in.web.accepted
            found == urls_of(unit_out.sanitized)
        IN  /\ { found[i] : i \in 1..Len(found) } = { verified_form(unit_in.web, u) : u \in S }
            /\ unit_out.failed_urls = SelectSeq(urls, LAMBDA u : u \notin S)
            /\ unit_out.removed_unverified <=> unit_out.failed_urls # << >>

\* C21: sanitizing is idempotent: when t is the text _sanitize_answer_links returned
\* and verification accepts every URL of t as itself, _sanitize_answer_links(t)
\* returns (t, False, []).
C21_SanitizingTwiceChangesNothing ==
    unit_pc = "again" =>
        unit_out = [sanitized |-> unit_in.answer, removed_unverified |-> FALSE,
                    failed_urls |-> << >>]

\* C22: a further _chat call is made only when sanitizing removed at least one
\* link, no URL is left in the sanitized answer and no grounding source can stand in
\* for the removed links; one classify_and_reply call makes at most
\* 1 + LINK_RETRY_ATTEMPTS = 2 _chat calls.
C22_RetryOnlyWithoutAnyLink ==
    [][/\ chat_calls' <= 1 + LINK_RETRY_ATTEMPTS
       /\ (chat_calls >= 1 /\ chat_calls' > chat_calls) =>
              /\ removed_unverified_links
              /\ failed_urls # << >>
              /\ ~has_answer_urls(answer)
              /\ pick_alternative_source_url(sources, failed_urls) = ""]_vars

C22_Witness == reply_pc = "done" /\ reply.kind = "returned" /\ chat_calls = 2

\* C23: when the links of the first answer all failed verification, no grounding
\* source exists and the retry gave neither a verified link nor a grounding source,
\* the returned answer has the dead URLs removed and ends with the sentence
\* "I could not verify a working official link right now."; no further _chat call
\* follows.
C23_NoLinkEndsWithAdmission ==
    (/\ reply_pc = "done" /\ reply.kind = "returned"
     /\ chat_calls = 1 + LINK_RETRY_ATTEMPTS
     /\ sources = << >>
     /\ ~has_answer_urls(answer)) =>
        /\ endswith(reply.answer, NOTE_NO_LINK)
        /\ \A i \in 1..Len(failed_urls) : failed_urls[i] \notin Range(extract_urls(reply.answer))

\* the first grounding source whose URL is not among the failed ones (0: none)
FirstUsable(srcs, failed) ==
    LET usable == { i \in 1..Len(srcs) : srcs[i].url # "" /\ srcs[i].url \notin Range(failed) }
    IN  IF usable = {} THEN 0 ELSE CHOOSE i \in usable : \A j \in usable : i <= j

OfficialLink(url) == <<Word("Official link:"), Url(url, "")>>

C25_FirstQueryAfterResetIsFresh ==
    \A t \in Threads :
        session[t].after_reset =>
            /\ ~session[t].cached
            /\ session[t].previous_user_text = ""

\* the sleeps _post_gemini_with_retries has made before its POST number n
BackoffBefore(n) == [i \in 1..(n - 1) |-> GEMINI_RETRY_BACKOFF_SECONDS * i]

\* the _chat calls classify_and_reply has made, the running one included
ChatCallsMade == chat_calls + IF pc["q1"] # "idle" /\ reply_pc \in {"idle", "retry"} THEN 1 ELSE 0

\* C26: a classify_and_reply call makes a bounded number of upstream requests: a
\* _post_gemini_with_retries call sends at most max(0, GEMINI_REQUEST_RETRIES) + 1
\* POSTs and sleeps GEMINI_RETRY_BACKOFF_SECONDS * attempt between two consecutive
\* ones and not after the last; a _chat call makes at most (candidate models) x
\* (tool configurations) such calls; at most 1 + LINK_RETRY_ATTEMPTS _chat calls are
\* made.
C26_UpstreamRequestsAreBounded ==
    /\ attempt["q1"] <= Max(0, cfg.GEMINI_REQUEST_RETRIES) + 1
    /\ pc["q1"] \in {"post", "mark", "done"} /\ attempt["q1"] >= 1 =>
           posting["q1"].slept = BackoffBefore(attempt["q1"])
    /\ posting["q1"].calls <= Len(model_attempts) * Len(tool_attempts)
    /\ ChatCallsMade <= 1 + LINK_RETRY_ATTEMPTS

C26_Witness ==
    /\ pc["q1"] = "done" /\ outcome["q1"].kind = "RequestException"
    /\ reply_pc = "retry"
    /\ ChatCallsMade = 2
    /\ posting["q1"].calls = 4
    /\ posting["q1"].slept = <<125, 250>>


\* query p sends a request in this step: _post_gemini_with_retries is called (line 611)
\* or its loop goes to its next attempt (line 555)
StartsPost(p) ==
    /\ pc'[p] = "post"
    /\ \/ posting'[p].calls > posting[p].calls
       \/ attempt'[p] > attempt[p]

\* the registry marks the model as one to skip at the present time
MarkedNow(model_name) ==
    \/ model_name \in MODEL_PERMANENTLY_UNAVAILABLE
    \/ MODEL_SKIP_UNTIL[model_name] > now

\* C27: no query starts a POST to a model while the registry marks the model as
\* skipped (permanently, or with a cooldown end that has not passed), whichever
\* query made the mark and wherever the posting query stands in its loops.
C27_NoPostWhileMarked ==
    [][ \A p \in Queries :
          StartsPost(p) => ~MarkedNow(model_attempts[model_idx'[p]]) ]_vars


\* C28: after a 400 on an attempt with a grounding-tool configuration that is not the
\* last one, _chat posts with the next tool configuration to the same model; after a
\* 400 on the last tool configuration it goes to the next candidate model when one
\* remains and raises the error otherwise; a 400 leaves the registry as it is.
C28_BadRequestTriesNextToolFirst ==
    [][ \A p \in Queries :
          (pc[p] = "mark" /\ http_response[p].status = 400 /\ pc'[p] # "mark") =>
              /\ MODEL_SKIP_UNTIL' = MODEL_SKIP_UNTIL
              /\ MODEL_PERMANENTLY_UNAVAILABLE' = MODEL_PERMANENTLY_UNAVAILABLE
              /\ IF cur_tool(p) # "none" /\ tool_idx[p] < Len(tool_attempts)
                 THEN /\ pc'[p] = "post"
                      /\ model_idx'[p] = model_idx[p]
                      /\ tool_idx'[p] = tool_idx[p] + 1
                      /\ attempt'[p] = 1
                 ELSE IF model_idx[p] < Len(model_attempts)
                 THEN /\ pc'[p] = "loop"
                      /\ model_idx'[p] = model_idx[p] + 1
                 ELSE /\ pc'[p] = "done"
                      /\ outcome'[p] = HTTPError(400)
      ]_vars

\* both tool configurations of m1 were answered 400, and the query is now posting to
\* m2 with the first one; the registry is empty
C28_Witness ==
    \E p \in Queries :
        /\ failover[p] = [model |-> "m1", tool |-> "googleSearch",
                          result |-> "HTTPError", status |-> 400]
        /\ pc[p] = "post"
        /\ cur_model(p) = "m2"
        /\ cur_tool(p) = "google_search"
        /\ MODEL_PERMANENTLY_UNAVAILABLE = {}
        /\ \A m \in ModelNames : MODEL_SKIP_UNTIL[m] = 0


\* C29: a _mark_model_unavailable(m, status, body) call leaves the cooldown map and
\* the permanent set unchanged when status is none of 403, 404 and 429 ('N/A'
\* included); leaves the cooldown map unchanged when status is 404; leaves the
\* permanent set and the cooldown of every model other than m unchanged when status
\* is 403 or 429.
C29_MarkChangesOnlyItsOwnEntry ==
    [][ \A t \in Threads :
          (call[t].op = "mark" /\ call'[t].op = "returned") =>
              /\ call[t].status \notin {403, 404, 429} =>
                    /\ MODEL_SKIP_UNTIL' = MODEL_SKIP_UNTIL
                    /\ MODEL_PERMANENTLY_UNAVAILABLE' = MODEL_PERMANENTLY_UNAVAILABLE
              /\ call[t].status = 404 => MODEL_SKIP_UNTIL' = MODEL_SKIP_UNTIL
              /\ call[t].status \in {403, 429} =>
                    /\ MODEL_PERMANENTLY_UNAVAILABLE' = MODEL_PERMANENTLY_UNAVAILABLE
                    /\ \A m \in ModelNames \ {call[t].model} :
                          MODEL_SKIP_UNTIL'[m] = MODEL_SKIP_UNTIL[m]
      ]_vars

\* a call with status 'N/A' for m1 has returned; m1 is in the permanent set, m2 is
\* cooling down
C29_Witness ==
    /\ call["t1"] = [op |-> "returned", model |-> "m1", status |-> STATUS_NA,
                     body |-> << >>, clock |-> now]
    /\ MODEL_PERMANENTLY_UNAVAILABLE = {"m1"}
    /\ MODEL_SKIP_UNTIL["m1"] = 0
    /\ MODEL_SKIP_UNTIL["m2"] > now


\* C30: during a _verify_urls_parallel call at most min(4, number of URLs) link
\* verifications run at any moment, and the call returns only when every submitted
\* verification has ended and its result is in the map.
C30_PoolRunsAtMostFourAtOnce ==
    /\ Cardinality(in_flight) <= Min(4, Len(batch_urls))
    /\ (batch_pc = "done" /\ batch_result = "returned") =>
           /\ in_flight = {}
           /\ pending = {}
           /\ DOMAIN batch_verified = Range(batch_urls)

\* four of six verifications are running, the other two wait
C30_Witness ==
    /\ batch_pc = "running"
    /\ Len(batch_urls) = 6
    /\ Cardinality(in_flight) = 4
    /\ Cardinality(pending) = 2


\* the URLs of a text that verification does not accept, in the order of their first
\* occurrence
FailedInOrder(text, net) ==
    SelectSeq(urls_of(text), LAMBDA url : verified_form(net, url) = << >>)

\* C31: what _sanitize_answer_links returns is fixed by the answer and by what
\* verification answers for each URL, whatever the order in which the parallel
\* verifications end: the text is the left-to-right rewrite and failedUrls lists the
\* failed URLs in the order of their first occurrence in the answer.
C31_ResultIndependentOfCompletionOrder ==
    unit_pc = "done" =>
        /\ unit_out = sanitize_links(unit_in.answer, unit_in.web)
        /\ unit_out.failed_urls = FailedInOrder(unit_in.answer, unit_in.web)

\* two URLs failed, the verification of the second ended first, and failedUrls has
\* them in the order of the answer
C31_Witness ==
    /\ unit_pc = "done"
    /\ unit_in.answer = <<"https://a", SP, "https://b">>
    /\ completion = << <<"https://b">>, <<"https://a">> >>
    /\ unit_out.failed_urls = << <<"https://a">>, <<"https://b">> >>


\* the rewrite C32 describes: an accepted URL gives way to its verified form and keeps
\* the punctuation that trails it in the match, any other URL goes together with it
RECURSIVE RewriteDroppingMarks(_, _, _, _)
RewriteDroppingMarks(text, net, matches, cursor) ==
    IF matches = << >> THEN SubSeq(text, cursor, Len(text))
    ELSE LET start == Head(matches)[1]
             end == Head(matches)[2]
             match == SubSeq(text, start, end)
             normalized == normalize_url(match)
             checked == verified_form(net, normalized)
             trailing == SubSeq(match, Len(normalized) + 1, Len(match))
         IN  IF normalized = << >>
             THEN RewriteDroppingMarks(text, net, Tail(matches), cursor)
             ELSE SubSeq(text, cursor, start - 1)
                      \o (IF checked # << >> THEN checked \o trailing ELSE << >>)
                      \o RewriteDroppingMarks(text, net, Tail(matches), end + 1)

\* C32: in what _sanitize_answer_links returns, a URL that is not verified is gone
\* together with the punctuation that trails it in its match and its normalized form
\* is once in failedUrls; a verified URL has given way to its verified form, its
\* trailing punctuation kept.
C32_FailedLinkGoesWithItsPunctuation ==
    (unit_pc = "done" /\ url_matches(unit_in.answer, 1) # << >>) =>
        /\ unit_out.sanitized =
               tidy(RewriteDroppingMarks(unit_in.answer, unit_in.web,
                                         url_matches(unit_in.answer, 1), 1))
        /\ unit_out.failed_urls = FailedInOrder(unit_in.answer, unit_in.web)


\* C33: while one upstream response is handled, no URL is handed to the link verifier
\* twice, neither by _extract_grounding_sources, nor by _sanitize_answer_links, nor
\* by the one after the other.
C33_NoUrlIsProbedTwice ==
    unit_pc \in {"extracted", "done"} =>
        \A i, j \in 1..Len(unit_out.probes) :
            unit_out.probes[i] = unit_out.probes[j] => i = j


\* C34: the steps of a query follow one another as request, parse, extract sources,
\* sanitize, ..., append sources; so a grounding source has been verified only when
\* _parse_mode_answer has returned an answer for the text of the response, and a link
\* of the answer only after that.
C34_SourcesVerifiedAfterParse ==
    /\ verified_urls # {} => (parse_pc = "done" /\ nested_parse(parsed).kind = "returned")
    /\ failed_urls # << >> => (parse_pc = "done" /\ nested_parse(parsed).kind = "returned")


\* C35: a non-empty URL returned by _verify_working_url is the final URL of a GET of
\* that call that was answered with a status below 400; resolving the final URL of a
\* response never puts a URL that was not requested in its place.
C35_ReturnedUrlWasFetched ==
    (verify_pc = "returned" /\ verify_result.kind = "returned" /\ verify_result.url # "") =>
        \E i \in 1..Len(probes) :
            /\ GoodGet(probes[i])
            /\ probes[i].url = verify_result.url


\* C36: the answer classify_and_reply returns is never empty, also when every part of
\* the upstream answer was a link that failed, with the retry returning an answer,
\* returning nothing usable or raising.
C36_ReturnedAnswerIsNotEmpty ==
    (reply_pc = "done" /\ reply.kind = "returned") => reply.answer # << >>

\* the upstream answer was one dead link, no citation could stand in, the retry was
\* made and brought nothing: the answer is the note alone
C36_Witness ==
    /\ reply_pc = "done"
    /\ reply.kind = "returned"
    /\ answer = << >>
    /\ failed_urls # << >>
    /\ chat_calls = 1 + LINK_RETRY_ATTEMPTS
    /\ reply.answer = NOTE_NO_LINK


\* the second _chat call of classify_and_reply has ended with an exception
RetryChatRaised ==
    /\ reply_pc = "retry"
    /\ pc["q1"] = "done"
    /\ outcome["q1"].kind \in {"HTTPError", "RequestException", "RuntimeError"}

NoTextIn200(p) ==
    /\ pc[p] = "post"
    /\ last_try'[p] = TryEnded(p, "RuntimeError", 200)

\* C39: a 200 response without candidates, without content parts or with blank text
\* ends the _chat call at once with a RuntimeError that names the defect: the call
\* makes no further POST and moves to no other tool configuration or model, and the
\* step leaves the cooldown registry as it was.
C39_NoTextFailsAtOnce ==
    [][\A p \in Queries :
          /\ NoTextIn200(p) =>
                /\ pc'[p] = "done"
                /\ outcome'[p].kind = "RuntimeError"
                /\ outcome'[p].message \in {MSG_NO_CANDIDATES, MSG_EMPTY_CONTENT, MSG_BLANK_TEXT}
                /\ model_idx'[p] = model_idx[p] /\ tool_idx'[p] = tool_idx[p]
                /\ posting'[p] = posting[p]
                /\ UNCHANGED <<MODEL_SKIP_UNTIL, MODEL_PERMANENTLY_UNAVAILABLE>>
          /\ (pc[p] = "done" /\ last_try[p].result = "RuntimeError" /\ last_try[p].status = 200) =>
                /\ posting'[p].calls <= posting[p].calls
                /\ pc'[p] \in {"done", "idle"}
      ]_vars

\* the first tool configuration of the first model was answered 200 without
\* candidates, with another tool configuration and another model still untried
C39_Witness ==
    \E p \in Queries :
       /\ pc[p] = "done"
       /\ outcome[p] = RuntimeError(MSG_NO_CANDIDATES)
       /\ last_try[p].result = "RuntimeError"
       /\ ~is_last_tool(p) /\ ~is_last_model(p)
       /\ posting[p].calls = 1

\* C40: for each chat at most one update is between the acquisition and the release
\* of the lock, the lock is held exactly while one is (so it is free again after every
\* way out of the block), and an update that arrived while another of its chat was
\* there is answered 'please wait' without a backend or engine request, while every
\* other update makes its backend request.
C40_OneQueryPerChat ==
    /\ \A c \in BotChats :
          /\ Cardinality(Processing(c)) <= 1
          /\ locked(chat_locks[c]) <=> Processing(c) # {}
    /\ \A u \in Updates :
          /\ run_query[u].pc # "idle" =>
                IF run_query[u].in_progress
                THEN /\ run_query[u].pc \in {"wait_reply", "done"}
                     /\ run_query[u].backend = 0 /\ run_query[u].engine = 0
                     /\ run_query[u].sent \in {"", MSG_PLEASE_WAIT}
                ELSE run_query[u].backend = 1 /\ run_query[u].sent # MSG_PLEASE_WAIT

\* one update of a chat was told to wait while another was with the engine after a
\* backend failure, and a third one of the same chat is being processed after the
\* lock was released on that path
C40_Witness ==
    /\ run_query["u1"].chat = "c1" /\ run_query["u1"].pc = "reply"
    /\ run_query["u1"].answer = MSG_TOO_LONG
    /\ run_query["u2"].chat = "c1" /\ run_query["u2"].sent = MSG_PLEASE_WAIT
    /\ run_query["u3"].chat = "c1" /\ run_query["u3"].pc = "backend"

====
